---- MODULE Spec2Model ----
(***************************************************************************)
(* A model of memstore: the SQLite-backed fact store (sqlite.go), its      *)
(* hybrid search (search.go), the transfer functions (transfer.go), the    *)
(* extraction pipeline (extract.go) and the MCP handlers (server.go).      *)
(*                                                                         *)
(* The fact table memstore_facts is the variable rows, a function from     *)
(* the ids of the rows present to their columns; nextID is the             *)
(* AUTOINCREMENT sequence.  Every SQL statement of the code is a pure      *)
(* operator from a table to a table; every store method is an action that  *)
(* applies its statement(s), and each specification records what its       *)
(* claims need of a run in history variables.                              *)
(***************************************************************************)
EXTENDS Integers, Sequences, FiniteSets, TLC

VARIABLES
    rows,      \* memstore_facts: id -> columns, for the rows present
    nextID,    \* the next value of the AUTOINCREMENT sequence
    imp,       \* the Import in progress, between its two passes
    pending,   \* per store, the EmbedFacts call in progress and its scan
    th,        \* per goroutine, the store method it runs and where it is
    mu,        \* per store object, the holders of its sync.RWMutex
    lastOp,    \* history: the last call, its target id and outcome
    relinked,  \* history: a step has overwritten a set superseded_by
    crossed,   \* history: a write through a store touched another namespace
    leaked,    \* history: a call on a foreign row succeeded or changed rows
    refused,   \* history: a call on a foreign row returned an error
    torn,      \* history: whose writes landed between a Search's passes
    ext,       \* the Extract call in progress: its records, fact and result
    schema,    \* memstore_version and the migration statements in effect
    meta,      \* memstore_meta: the recorded embedding model and dimension
    stores,    \* per namespace, the store opened on it and its embedder
    wrote,     \* history: the models and methods that wrote embeddings
    mixed,     \* history: EmbedFacts wrote under another model than recorded
    lastOpen,  \* history: the last NewSQLiteStore call and its outcome
    eh,        \* history: the last EmbedFacts call of a store and its effects
    xd,        \* the ExportData of an Export, and where its round trip is
    origin,    \* history: the table exported and the idMap of its import
    call,      \* history: the last call, what it returned, the table before
    lastSearch, \* history: the last search or listing and what it returned
    tool,      \* history: the last tool call of the server and its outcome
    codec,     \* history: the last vector encoding or decoding and its result
    walk,      \* the History call in progress and the row its walk is at
    race,      \* per caller, the memory_store call in progress and its fact
    mg,        \* per connection, the NewSQLiteStore call in progress
    mdb,       \* the database those calls open: version rows and schema
    rt,        \* the embedWithRetry invocation in progress and its caller
    rh,        \* history: the embedder calls of that invocation
    xh,        \* history: the failures met and records seen by an Extract
    links,     \* history: the <<old, new>> links automatic supersession made
    viol,      \* history: what a fact linked by automatic supersession lacked
    lastLink,  \* history: the last Supersede call of automatic supersession
    acct       \* history: how the records of an Extract call have ended

\* the database and the calls in progress on it
dbVars == <<rows, nextID, imp, pending>>

\* the goroutines and the mutexes, and what the lock specification records
lockVars == <<th, mu, torn>>

\* what the chain and tool specifications record of a run
chainHist == <<lastOp, relinked>>

\* what the namespace specification records of a run
nsHist == <<crossed, leaked, refused>>

\* the extractor, and what the extraction specification records of a run
extVars == <<ext, xh, links, viol, lastLink, acct>>

\* an embedder invocation, and what the embedding specification records
embVars == <<rt, rh>>

\* the schema, the model binding and the open stores, and what the open
\* specification records of a run
openVars == <<schema, meta, stores, wrote, mixed, lastOpen>>

\* what the resumption specification records of a run
resumeVars == <<eh>>

\* an export on its way into another database, and what the transfer
\* specification records of it
xferVars == <<xd, origin>>

\* what the call specification records of a run
callHist == <<call>>

\* what the search specifications record of a run
searchHist == <<lastSearch>>

\* what the server specification records of a run
toolHist == <<tool>>

\* what the codec specification records of a run
codecVars == <<codec>>

\* a History call in progress
walkVars == <<walk>>

\* memory_store calls in progress on one store
raceVars == <<race>>

\* NewSQLiteStore calls in progress on one database file, and that database
migVars == <<mg, mdb>>

vars ==
    <<dbVars, lockVars, chainHist, nsHist, extVars, embVars, openVars,
      resumeVars, xferVars, callHist, searchHist, toolHist, codecVars, walkVars, raceVars, migVars>>

----------------------------------------------------------------------------
(* Bounds of the model. *)

\* ids the AUTOINCREMENT sequence hands out in a run of the chain
\* specification
MaxFacts == 2

\* ids the AUTOINCREMENT sequence hands out in a run of the tool
\* specification
MaxToolFacts == 3

\* ids the AUTOINCREMENT sequence hands out in a run of the namespace
\* specification
MaxNsFacts == 2

\* confirmations a fact receives in a run
MaxConfirms == 1

\* texts in one batch handed to the embedder, and vectors it may return
MaxTexts == 2

\* ids the AUTOINCREMENT sequence hands out in a run of the extraction
\* specification
MaxExtractFacts == 3

\* ids the AUTOINCREMENT sequence hands out in a run of the lock
\* specification
MaxLockFacts == 1

----------------------------------------------------------------------------
(* Values. *)

\* SQL NULL in an integer or text column, a nil *int64 / *time.Time in Go
Nil == 0

\* time.Now().UTC().Format(time.RFC3339): some non-NULL timestamp
Now == 1

\* time.Now() as Import reads it, later than the times in the export
ImportNow == 2

\* a CreatedAt its caller gives to Insert, earlier than the run
Created == 3

\* the namespaces stores are opened with (NewSQLiteStore's third argument)
Namespaces == {"alpha", "beta"}

\* ids a caller may pass: every id ever issued and one that never is
ArgIds == 1..(MaxFacts + 1)

\* Fact values handed to Insert by the chain specification: the caller may
\* set SupersededBy; content, embedding and metadata do not vary here.
ChainFacts ==
    [ns : {"beta"}, content : {"c1"}, subject : {"s1"}, meta : {{}},
     supBy : {Nil} \cup ArgIds, emb : {<<>>}]

----------------------------------------------------------------------------
(* SQL statements, as functions of the table. *)

\* f.Category, the empty string in the Fact values that do not set it
CategoryOf(f) == IF "category" \in DOMAIN f THEN f.category ELSE ""

\* if f.CreatedAt.IsZero() { f.CreatedAt = time.Now().UTC() }
CreatedAtOf(f) ==
    IF "createdAt" \in DOMAIN f /\ f.createdAt # Nil THEN f.createdAt
    ELSE Now

\* The row written by the INSERT of Insert/InsertBatch: the namespace column
\* is the store's, and superseded_at is not among the inserted columns.
InsertRowAnyNs(s, f) ==
    [ns |-> f.ns, content |-> f.content, subject |-> f.subject,
     meta |-> f.meta, supBy |-> f.supBy, supAt |-> Nil,
     cc |-> 0, lastConf |-> Nil, emb |-> f.emb,
     category |-> CategoryOf(f), createdAt |-> CreatedAtOf(f)]

InsertRow(s, f) ==
    [ns |-> s, content |-> f.content, subject |-> f.subject,
     meta |-> f.meta, supBy |-> f.supBy, supAt |-> Nil,
     cc |-> 0, lastConf |-> Nil, emb |-> f.emb,
     category |-> CategoryOf(f), createdAt |-> CreatedAtOf(f)]

\* WHERE id = ? AND namespace = ? AND superseded_by IS NULL
SupersedeWhereNoGuard(db, s, oldID) ==
    {i \in DOMAIN db : i = oldID /\ db[i].ns = s}

SupersedeWhere(db, s, oldID) ==
    {i \in DOMAIN db : i = oldID /\ db[i].ns = s /\ db[i].supBy = Nil}

\* UPDATE memstore_facts SET superseded_by = ?, superseded_at = ? WHERE ...
SupersedeUpdate(db, s, oldID, newID) ==
    [i \in DOMAIN db |->
        IF i \in SupersedeWhere(db, s, oldID)
        THEN [db[i] EXCEPT !.supBy = newID, !.supAt = Now]
        ELSE db[i]]

\* WHERE id = ? AND namespace = ?
IdWhereAnyNs(db, s, id) == {i \in DOMAIN db : i = id}

IdWhere(db, s, id) == {i \in DOMAIN db : i = id /\ db[i].ns = s}

\* DELETE FROM memstore_facts WHERE id = ? AND namespace = ?
DeleteFrom(db, s, id) ==
    [i \in (DOMAIN db) \ IdWhere(db, s, id) |-> db[i]]

\* SELECT ... WHERE id = ? AND namespace = ? (Get, the anchor and the
\* forward step of historyByID): the ids of the rows found, none or one
GetRow(db, s, id) == IdWhere(db, s, id)

\* SELECT COUNT(*) ... WHERE content = ? AND subject = ? AND namespace = ?
ExistsActive(db, s, content, subject) ==
    \E i \in DOMAIN db :
        /\ db[i].content = content /\ db[i].subject = subject
        /\ db[i].ns = s /\ db[i].supBy = Nil

Exists(db, s, content, subject) ==
    \E i \in DOMAIN db :
        db[i].content = content /\ db[i].subject = subject /\ db[i].ns = s

----------------------------------------------------------------------------
(* History (sqlite.go, historyByID). *)

\* SELECT ... WHERE superseded_by = ? AND namespace = ?
PredsOf(db, s, cur) ==
    {i \in DOMAIN db : db[i].supBy = cur /\ db[i].ns = s}

\* QueryRow keeps the first row of that scan, which is in rowid order.
FirstOf(S) == CHOOSE i \in S : \A j \in S : i <= j

\* The backward loop: predecessors in the order found.  The loop has no
\* bound in the code; fuel counts the rows, so fuel running out means a row
\* came up twice and the loop never ends (ok = FALSE).
RECURSIVE BackwardWalk(_, _, _, _)
BackwardWalk(db, s, cur, fuel) ==
    LET P == PredsOf(db, s, cur) IN
    IF P = {} THEN [ok |-> TRUE, ids |-> <<>>]
    ELSE IF fuel = 0 THEN [ok |-> FALSE, ids |-> <<>>]
    ELSE LET w == BackwardWalk(db, s, FirstOf(P), fuel - 1) IN
         [ok |-> w.ok, ids |-> <<FirstOf(P)>> \o w.ids]

\* The forward loop: follows SupersededBy until a row is missing or active.
RECURSIVE ForwardWalk(_, _, _, _)
ForwardWalk(db, s, next, fuel) ==
    IF GetRow(db, s, next) = {} THEN [ok |-> TRUE, ids |-> <<>>]
    ELSE IF fuel = 0 THEN [ok |-> FALSE, ids |-> <<>>]
    ELSE IF db[next].supBy = Nil THEN [ok |-> TRUE, ids |-> <<next>>]
    ELSE LET w == ForwardWalk(db, s, db[next].supBy, fuel - 1) IN
         [ok |-> w.ok, ids |-> <<next>> \o w.ids]

Reverse(sq) == [i \in 1..Len(sq) |-> sq[Len(sq) + 1 - i]]

\* historyByID: err when the anchor is not found, done = FALSE when one of
\* the loops never ends, else the entries oldest first.
HistoryByID(db, s, id) ==
    IF GetRow(db, s, id) = {}
    THEN [err |-> TRUE, done |-> TRUE, entries |-> <<>>]
    ELSE
      LET n == Cardinality(DOMAIN db)
          back == BackwardWalk(db, s, id, n)
          fwd == IF db[id].supBy = Nil THEN [ok |-> TRUE, ids |-> <<>>]
                 ELSE ForwardWalk(db, s, db[id].supBy, n)
          chain == Reverse(back.ids) \o <<id>> \o fwd.ids
      IN  IF ~(back.ok /\ fwd.ok)
          THEN [err |-> FALSE, done |-> FALSE, entries |-> <<>>]
          ELSE [err |-> FALSE, done |-> TRUE,
                entries |-> [i \in 1..Len(chain) |->
                    [id |-> chain[i], supBy |-> db[chain[i]].supBy,
                     Position |-> i - 1, ChainLength |-> Len(chain)]]]

----------------------------------------------------------------------------
(* Store methods. *)

\* SQLiteStore.Insert: the id is the next AUTOINCREMENT value.
Insert(s, f) ==
    /\ rows' = rows @@ (nextID :> InsertRow(s, f))
    /\ nextID' = nextID + 1
    /\ UNCHANGED <<imp, pending>>

\* SQLiteStore.Supersede: an error when RowsAffected is 0.
SupersedeErr(db, s, oldID) == SupersedeWhere(db, s, oldID) = {}

Supersede(s, oldID, newID) ==
    /\ rows' = SupersedeUpdate(rows, s, oldID, newID)
    /\ UNCHANGED <<nextID, imp, pending>>

\* SQLiteStore.Delete: an error when RowsAffected is 0.
DeleteErr(db, s, id) == IdWhere(db, s, id) = {}

Delete(s, id) ==
    /\ rows' = DeleteFrom(rows, s, id)
    /\ UNCHANGED <<nextID, imp, pending>>

\* MemoryServer.HandleSupersede (the memory_supersede tool): the ids are
\* validated, both facts are fetched with Get, then Supersede is called.
HandleSupersedeChecksOldOnly(db, s, oldID, newID) ==
    /\ oldID > 0 /\ newID > 0
    /\ oldID # newID
    /\ GetRow(db, s, oldID) # {}
    /\ db[oldID].supBy = Nil

HandleSupersedeChecks(db, s, oldID, newID) ==
    /\ oldID > 0 /\ newID > 0
    /\ oldID # newID
    /\ GetRow(db, s, oldID) # {}
    /\ db[oldID].supBy = Nil
    /\ GetRow(db, s, newID) # {}

HandleSupersedeErr(db, s, oldID, newID) ==
    ~HandleSupersedeChecks(db, s, oldID, newID) \/ SupersedeErr(db, s, oldID)

HandleSupersede(s, oldID, newID) ==
    /\ rows' = IF HandleSupersedeChecks(rows, s, oldID, newID)
               THEN SupersedeUpdate(rows, s, oldID, newID)
               ELSE rows
    /\ UNCHANGED <<nextID, imp, pending>>

\* The embedder the stores and the server are given: the vector of a text.
\* Texts c1 and c2 are near paraphrases (cosine 0.95), c3 is unrelated.
EmbedOf(content) ==
    CASE content = "c1" -> <<1, 0>>
      [] content = "c2" -> <<3, 1>>
      [] OTHER -> <<0, 1>>

\* No tool call.  Of one: the tool, the store's namespace, the arguments,
\* whether the result is an error result, the texts given to the embedder
\* and the table before the call.
NoTool ==
    [op |-> "none", s |-> "", args |-> <<>>, err |-> FALSE,
     embedded |-> <<>>, before |-> <<>>]

\* strings.TrimSpace(text) == ""
Blank(text) == text \in {"", " "}

\* MemoryServer.HandleStore (the memory_store tool): a content or subject
\* that is blank is an error; a duplicate is reported without an error;
\* else the content is embedded, the fact inserted with the category
\* "note" when none is given and, when supersedes is given,
\* Supersede(supersedes, id) called, whose failure is only a warning in the
\* message.
HandleStoreErr(db, s, content, subject, embedOk) ==
    \/ Blank(content) \/ Blank(subject)
    \/ ~Exists(db, s, content, subject) /\ ~embedOk

\* the texts HandleStore gives to Single
HandleStoreEmbeds(db, s, content, subject) ==
    IF Blank(content) \/ Blank(subject) \/ Exists(db, s, content, subject)
    THEN <<>> ELSE <<content>>

HandleStore(s, content, subject, supersedes, embedOk) ==
    LET skip == \/ Blank(content) \/ Blank(subject)
                \/ Exists(rows, s, content, subject)
                \/ ~embedOk
        f == [ns |-> s, content |-> content, subject |-> subject,
              category |-> "note", meta |-> {}, supBy |-> Nil,
              emb |-> EmbedOf(content)]
        ins == rows @@ (nextID :> InsertRow(s, f))
    IN
    /\ rows' = IF skip THEN rows
               ELSE IF supersedes = Nil THEN ins
               ELSE SupersedeUpdate(ins, s, supersedes, nextID)
    /\ nextID' = IF skip THEN nextID ELSE nextID + 1
    /\ UNCHANGED <<imp, pending>>

\* UPDATE memstore_facts SET confirmed_count = confirmed_count + 1,
\* last_confirmed_at = ? WHERE id = ? AND namespace = ?
ConfirmUpdate(db, s, id) ==
    [i \in DOMAIN db |->
        IF i \in IdWhere(db, s, id)
        THEN [db[i] EXCEPT !.cc = @ + 1, !.lastConf = Now]
        ELSE db[i]]

\* UPDATE memstore_facts SET embedding = ? WHERE id = ? AND namespace = ?
SetEmbeddingUpdate(db, s, id, emb) ==
    [i \in DOMAIN db |->
        IF i \in IdWhere(db, s, id) THEN [db[i] EXCEPT !.emb = emb]
        ELSE db[i]]

\* SQLiteStore.Confirm: an error when RowsAffected is 0.
ConfirmErrNever(db, s, id) == FALSE

ConfirmErr(db, s, id) == IdWhere(db, s, id) = {}

Confirm(s, id) ==
    /\ rows' = ConfirmUpdate(rows, s, id)
    /\ UNCHANGED <<nextID, imp, pending>>

\* SQLiteStore.SetEmbedding: RowsAffected is not looked at, so no error.
SetEmbedding(s, id, emb) ==
    /\ rows' = SetEmbeddingUpdate(rows, s, id, emb)
    /\ UNCHANGED <<nextID, imp, pending>>

\* SQLiteStore.InsertBatch: the facts are inserted in order in one
\* transaction, each with the next id.
RECURSIVE InsertBatchRows(_, _, _, _, _)
InsertBatchRows(db, s, facts, k, next) ==
    IF k > Len(facts) THEN db
    ELSE InsertBatchRows(db @@ (next :> InsertRow(s, facts[k])), s, facts,
                         k + 1, next + 1)

\* The statements of InsertBatch inside its transaction, from fact k on:
\* statement failAt fails, or the Commit when failAt is Len(facts) + 1, or
\* nothing when failAt is 0.  The result is the table as the transaction
\* sees it, the ids written to facts[i].ID and whether an error is returned.
RECURSIVE InsertBatchExec(_, _, _, _, _, _, _)
InsertBatchExec(txdb, s, facts, k, next, failAt, ids) ==
    IF k = failAt THEN [db |-> txdb, ids |-> ids, err |-> TRUE]
    ELSE IF k > Len(facts) THEN [db |-> txdb, ids |-> ids, err |-> FALSE]
    ELSE InsertBatchExec(txdb @@ (next :> InsertRow(s, facts[k])), s, facts,
                         k + 1, next + 1, failAt, Append(ids, next))

\* defer tx.Rollback(): the table is as it was before BeginTx
RollbackKeeps(db, txdb) == txdb

Rollback(db, txdb) == db

InsertBatchResult(db, s, facts, next, failAt) ==
    InsertBatchExec(db, s, facts, 1, next, failAt, <<>>)

InsertBatchTx(s, facts, failAt) ==
    LET r == InsertBatchResult(rows, s, facts, nextID, failAt) IN
    /\ rows' = IF r.err THEN Rollback(rows, r.db) ELSE r.db
    /\ nextID' = IF r.err THEN nextID ELSE nextID + Len(facts)
    /\ UNCHANGED <<imp, pending>>

InsertBatch(s, facts) == InsertBatchTx(s, facts, 0)

\* What a run records of the last call of a store method: its name, the
\* store, the id and the facts it was given, the error and the ids it
\* returned, and the table before it.
NoCall ==
    [op |-> "none", s |-> "", id |-> Nil, facts |-> <<>>, err |-> FALSE,
     ids |-> <<>>, before |-> <<>>]

----------------------------------------------------------------------------
(* EmbedFacts (sqlite.go).  The call scans the unembedded facts of the     *)
(* store's namespace, then embeds and updates them batch by batch; the     *)
(* embedder calls take time, during which other stores on the database     *)
(* run.                                                                    *)

\* SELECT id, content FROM memstore_facts
\* WHERE embedding IS NULL AND namespace = ? ORDER BY id
UnembeddedWhereAnyNs(db, s) == {i \in DOMAIN db : db[i].emb = <<>>}

UnembeddedWhere(db, s) ==
    {i \in DOMAIN db : db[i].emb = <<>> /\ db[i].ns = s}

\* the elements of a set of ids in ascending order (ORDER BY id)
RECURSIVE OrderByID(_)
OrderByID(S) ==
    IF S = {} THEN <<>>
    ELSE LET m == CHOOSE i \in S : \A j \in S : i <= j
         IN  <<m>> \o OrderByID(S \ {m})

EmbedIdle == [pc |-> "idle", facts |-> <<>>, batchSize |-> 0, total |-> 0]

\* the first batch of the facts still pending
BatchOf(p) == SubSeq(p.facts, 1,
                     IF p.batchSize < Len(p.facts) THEN p.batchSize
                     ELSE Len(p.facts))

\* UPDATE memstore_facts SET embedding = ? WHERE id = ?, for each fact of
\* the batch, with the embedding of the content read by the scan
RECURSIVE EmbedUpdate(_, _, _)
EmbedUpdate(db, batch, k) ==
    IF k > Len(batch) THEN db
    ELSE EmbedUpdate(
             [i \in DOMAIN db |->
                 IF i = batch[k].id
                 THEN [db[i] EXCEPT !.emb = EmbedOf(batch[k].content)]
                 ELSE db[i]],
             batch, k + 1)

\* EmbedFacts up to the end of its scan; it returns at once when no fact
\* needs an embedding.
EmbedFactsScan(s, batchSize) ==
    LET ids == OrderByID(UnembeddedWhere(rows, s))
        facts == [k \in 1..Len(ids) |->
                     [id |-> ids[k], content |-> rows[ids[k]].content]]
    IN
    /\ pending[s].pc = "idle"
    /\ pending' = [pending EXCEPT ![s] =
                      IF Len(facts) = 0 THEN EmbedIdle
                      ELSE [pc |-> "embed", facts |-> facts,
                            batchSize |-> batchSize, total |-> 0]]
    /\ UNCHANGED <<rows, nextID, imp>>

\* One turn of the batch loop: embedWithRetry, then the UPDATEs of the
\* batch in a transaction; EmbedFacts returns when the embedder fails or
\* the last batch is done.
EmbedFactsBatch(s, embedOk) ==
    LET p == pending[s]
        batch == BatchOf(p)
        rest == SubSeq(p.facts, Len(batch) + 1, Len(p.facts))
    IN
    /\ p.pc = "embed"
    /\ rows' = IF embedOk THEN EmbedUpdate(rows, batch, 1) ELSE rows
    /\ pending' = [pending EXCEPT ![s] =
                      IF ~embedOk \/ Len(rest) = 0 THEN EmbedIdle
                      ELSE [p EXCEPT !.facts = rest,
                                     !.total = @ + Len(batch)]]
    /\ UNCHANGED <<nextID, imp>>

\* The count EmbedFacts returns from the batch loop when it returns in this
\* turn: total, with the length of the batch added when the batch was
\* committed.
EmbedFactsReturnZero(p, embedOk) ==
    IF embedOk THEN p.total + Len(BatchOf(p)) ELSE 0

EmbedFactsReturn(p, embedOk) ==
    IF embedOk THEN p.total + Len(BatchOf(p)) ELSE p.total

\* What a run records of the last EmbedFacts call of a store: how it ended
\* and how the call before it ended, the count returned, the facts of the
\* namespace that lacked an embedding when it began and when it returned,
\* the facts it gave one, and whether it changed a fact of a failed batch,
\* lost an embedding of an earlier batch or changed one that existed.
EmbedHistIdle ==
    [out |-> "none", prev |-> "none", ret |-> 0, lacking |-> {},
     left |-> {}, done |-> {}, touched |-> FALSE, lost |-> FALSE,
     clobber |-> FALSE]

----------------------------------------------------------------------------
(* Locking (sqlite.go, search.go).  Every SQLiteStore has its own          *)
(* sync.RWMutex mu; a method is a sequence of steps, of which "lock" is    *)
(* its s.mu.Lock() or s.mu.RLock() and the deferred unlock runs when it    *)
(* returns.                                                                *)

\* embedMaxRetries: embedWithRetry makes embedMaxRetries + 1 attempts
embedMaxRetries == 2

\* goroutines calling methods of the store object "A"
Threads == {"t1", "t2"}

\* two SQLiteStore values opened on the same *sql.DB
StoreObjects == {"A", "B"}

\* their namespaces: B is a second store of the same namespace, as Import
\* opens one for each namespace of its data
NsOf(h) == "alpha"

\* the methods that execute INSERT, UPDATE or DELETE statements
WriteMethods ==
    {"Insert", "InsertBatch", "Supersede", "Confirm", "Delete",
     "SetEmbedding", "EmbedFacts"}

\* the methods that only SELECT
ReadMethods ==
    {"Get", "List", "BySubject", "Exists", "ActiveCount",
     "NeedingEmbedding", "History", "Search", "SearchBatch"}

\* the methods whose body begins with s.mu.Lock(); the others begin with
\* s.mu.RLock() (Search and SearchBatch after their embedding)
WriteLocked ==
    {"Insert", "InsertBatch", "Supersede", "Confirm", "Delete",
     "SetEmbedding", "EmbedFacts"}

LockKindGetUnlocked(op) ==
    IF op \in WriteLocked THEN "Lock"
    ELSE IF op = "Get" THEN "none" ELSE "RLock"

LockKind(op) == IF op \in WriteLocked THEN "Lock" ELSE "RLock"

\* The steps of Search and SearchBatch: the query embedding, the lock, then
\* for each query the lexical pass and the vector pass.
SearchStepsLockFirst == <<"lock", "embed", "fts", "vec">>

SearchSteps == <<"embed", "lock", "fts", "vec">>

\* The steps of EmbedFacts: the lock, the scan, then for each batch the
\* embedding and the updates.
EmbedFactsSteps == <<"lock", "scan", "embed", "update">>

Steps(op) ==
    CASE op \in {"Search", "SearchBatch"} -> SearchSteps
      [] op = "EmbedFacts" -> EmbedFactsSteps
      [] OTHER -> <<"lock", "db">>

\* the step after pc in the steps of op
StepAfter(op, pc) ==
    LET sq == Steps(op)
        k == CHOOSE i \in 1..Len(sq) : sq[i] = pc
    IN  IF k < Len(sq) THEN sq[k + 1] ELSE "return"

\* A goroutine: the method op, the step pc it is about to take, the failed
\* attempts of the current embedWithRetry and the query index of SearchBatch.
ThreadIdle == [op |-> "none", pc |-> "idle", tries |-> 0, q |-> 0]

\* An RWMutex: the goroutine holding it exclusively and those sharing it.
Unlocked == [w |-> "none", r |-> {}]

Holds(m, t) == m.w = t \/ t \in m.r

CanLock(m) == m.w = "none" /\ m.r = {}

CanRLock(m) == m.w = "none"

\* mu.Unlock() or mu.RUnlock() by t, whichever it holds
Release(m, t) ==
    [w |-> IF m.w = t THEN "none" ELSE m.w, r |-> m.r \ {t}]

\* A write through store object h that changes the table while a Search of
\* another goroutine is between its passes is recorded in torn, as "same"
\* when that Search runs on h and "other" when not.  Goroutines run on "A".
TornBy(t, h) ==
    IF rows' # rows
       /\ \E u \in Threads \ {t} : th[u].op = "Search" /\ th[u].pc = "vec"
    THEN {IF h = "A" THEN "same" ELSE "other"}
    ELSE {}

\* t returns from its method: the deferred unlock runs.
Return(t) ==
    /\ th' = [th EXCEPT ![t] = ThreadIdle]
    /\ mu' = [mu EXCEPT !["A"] = Release(mu["A"], t)]

\* t moves on to its next step, or returns after the last.
Advance(t) ==
    IF StepAfter(th[t].op, th[t].pc) = "return" THEN Return(t)
    ELSE /\ th' = [th EXCEPT ![t].pc = StepAfter(th[t].op, th[t].pc),
                             ![t].tries = 0]
         /\ UNCHANGED mu

\* t calls a method of store A.
Call(t, op) ==
    /\ th[t].pc = "idle"
    /\ th' = [th EXCEPT ![t] = [op |-> op, pc |-> Steps(op)[1],
                                tries |-> 0, q |-> 1]]
    /\ UNCHANGED <<dbVars, mu, torn>>

\* s.mu.Lock() / s.mu.RLock(): t blocks until the mutex admits it.
Acquire(t) ==
    /\ th[t].pc = "lock"
    /\ \/ /\ LockKind(th[t].op) = "Lock" /\ CanLock(mu["A"])
          /\ mu' = [mu EXCEPT !["A"].w = t]
       \/ /\ LockKind(th[t].op) = "RLock" /\ CanRLock(mu["A"])
          /\ mu' = [mu EXCEPT !["A"].r = @ \cup {t}]
       \/ /\ LockKind(th[t].op) = "none"
          /\ mu' = mu
    /\ th' = [th EXCEPT ![t].pc = StepAfter(th[t].op, th[t].pc)]
    /\ UNCHANGED <<dbVars, torn>>

\* One e.Embed call of embedWithRetry: success moves on; a failure is
\* retried unless it was the last attempt or the context is cancelled, and
\* then the method returns the error (EmbedFacts dropping its scan).
EmbedAttempt(t, ok, cancelled) ==
    /\ th[t].pc = "embed"
    /\ IF ok THEN Advance(t) /\ UNCHANGED dbVars
       ELSE IF th[t].tries < embedMaxRetries /\ ~cancelled
       THEN /\ th' = [th EXCEPT ![t].tries = @ + 1]
            /\ UNCHANGED <<dbVars, mu>>
       ELSE /\ Return(t)
            /\ IF th[t].op = "EmbedFacts"
               THEN EmbedFactsBatch(NsOf("A"), FALSE)
               ELSE UNCHANGED dbVars
    /\ UNCHANGED torn

\* The statement(s) of a read method other than the searches.
ExecRead(t) ==
    /\ th[t].pc = "db" /\ th[t].op \in ReadMethods
    /\ Return(t)
    /\ UNCHANGED <<dbVars, torn>>

\* The statement(s) of a write method other than EmbedFacts, on the inputs
\* id and f.
ExecWrite(t, id, f) ==
    /\ th[t].pc = "db"
    /\ CASE th[t].op = "Insert" -> Insert(NsOf("A"), f)
         [] th[t].op = "InsertBatch" -> InsertBatch(NsOf("A"), <<f>>)
         [] th[t].op = "Supersede" -> Supersede(NsOf("A"), id, id)
         [] th[t].op = "Confirm" -> Confirm(NsOf("A"), id)
         [] th[t].op = "Delete" -> Delete(NsOf("A"), id)
         [] th[t].op = "SetEmbedding" ->
              SetEmbedding(NsOf("A"), id, EmbedOf(f.content))
         [] OTHER -> FALSE
    /\ Return(t)
    /\ torn' = torn \cup TornBy(t, "A")

\* searchFTS of the current query
FTSPass(t) ==
    /\ th[t].pc = "fts"
    /\ Advance(t)
    /\ UNCHANGED <<dbVars, torn>>

\* searchVector and mergeResults of the current query; SearchBatch then
\* turns to its next query.
VecPass(t, queries) ==
    /\ th[t].pc = "vec"
    /\ IF th[t].op = "SearchBatch" /\ th[t].q < queries
       THEN /\ th' = [th EXCEPT ![t].pc = "fts", ![t].q = @ + 1]
            /\ UNCHANGED mu
       ELSE Advance(t)
    /\ UNCHANGED <<dbVars, torn>>

\* The scan of EmbedFacts; it returns when nothing is pending.
Scan(t, batchSize) ==
    /\ th[t].pc = "scan"
    /\ EmbedFactsScan(NsOf("A"), batchSize)
    /\ IF pending'[NsOf("A")].pc = "idle" THEN Return(t) ELSE Advance(t)
    /\ UNCHANGED torn

\* The updates of the batch just embedded; EmbedFacts then embeds its next
\* batch or returns.
Update(t) ==
    /\ th[t].pc = "update"
    /\ EmbedFactsBatch(NsOf("A"), TRUE)
    /\ IF pending'[NsOf("A")].pc = "idle" THEN Return(t)
       ELSE /\ th' = [th EXCEPT ![t].pc = "embed", ![t].tries = 0]
            /\ UNCHANGED mu
    /\ torn' = torn \cup TornBy(t, "A")

\* A whole Insert through the store object B, whose mutex no goroutine of
\* the model contends for.
OtherStoreInsert(f) ==
    /\ CanLock(mu["B"])
    /\ Insert(NsOf("B"), f)
    /\ torn' = torn \cup TornBy("none", "B")
    /\ UNCHANGED <<th, mu>>

\* A whole Delete through the store object B.
OtherStoreDelete(id) ==
    /\ CanLock(mu["B"])
    /\ Delete(NsOf("B"), id)
    /\ torn' = torn \cup TornBy("none", "B")
    /\ UNCHANGED <<th, mu>>

----------------------------------------------------------------------------
(* Reads (sqlite.go, search.go), as functions of the table.  A result is   *)
(* the sequence or set of the ids of the facts returned.  The tables of    *)
(* the model hold fewer rows than the LIMIT of a search (MaxResults * 2,   *)
(* 40 by default), so that LIMIT never cuts.                               *)

\* appendNamespaceFilter: AND namespace IN (...) when Namespaces is not
\* empty, else AND namespace = the store's
NamespaceFilterOwnToo(s, namespaces, ns) ==
    ns = s \/ ns \in namespaces

NamespaceFilter(s, namespaces, ns) ==
    IF namespaces # {} THEN ns \in namespaces ELSE ns = s

\* SQLiteStore.List with QueryOpts{Namespaces, Subject, OnlyActive, Limit}
List(db, s, opts) ==
    LET found == OrderByID({i \in DOMAIN db :
                     /\ NamespaceFilter(s, opts.Namespaces, db[i].ns)
                     /\ opts.Subject # "" => db[i].subject = opts.Subject
                     /\ opts.OnlyActive => db[i].supBy = Nil})
    IN  IF opts.Limit > 0 /\ opts.Limit < Len(found)
        THEN SubSeq(found, 1, opts.Limit)
        ELSE found

\* historyBySubject: every fact of the subject in the store's namespace
\* (ordered by created_at, which the model does not keep)
HistoryBySubject(db, s, subject) ==
    {i \in DOMAIN db : db[i].subject = subject /\ db[i].ns = s}

\* SQLiteStore.BySubject
BySubject(db, s, subject, onlyActive) ==
    OrderByID({i \in DOMAIN db :
        /\ db[i].subject = subject /\ db[i].ns = s
        /\ onlyActive => db[i].supBy = Nil})

\* SQLiteStore.ActiveCount
ActiveCount(db, s) ==
    Cardinality({i \in DOMAIN db : db[i].supBy = Nil /\ db[i].ns = s})

\* SQLiteStore.NeedingEmbedding; a limit of 0 or less means 100
NeedingEmbedding(db, s, limit) ==
    LET found == OrderByID(UnembeddedWhere(db, s))
        lim == IF limit <= 0 THEN 100 ELSE limit
    IN  IF lim < Len(found) THEN SubSeq(found, 1, lim) ELSE found

\* The words of a text, as strings.Fields and the FTS5 tokenizer split it.
WordsOf(text) ==
    CASE text = "c1" -> {"w1", "w2"}
      [] text = "c2" -> {"w1", "w3"}
      [] text = "c3" -> {"w4"}
      [] text = "" -> {}
      [] OTHER -> {text}

\* quoteFTSQuery and MATCH: every word of the query, quoted, must occur.
FTSMatch(query, content) ==
    WordsOf(query) # {} /\ WordsOf(query) \subseteq WordsOf(content)

Dot(a, b) == IF Len(a) = 2 THEN a[1] * b[1] + a[2] * b[2] ELSE 0

\* CosineSimilarity(a, b) > 0: 0 is returned for vectors of different
\* length, empty vectors and vectors of zero magnitude.
CosinePositive(a, b) ==
    /\ Len(a) = Len(b) /\ Len(a) # 0
    /\ Dot(a, a) * Dot(b, b) # 0
    /\ Dot(a, b) > 0

\* searchFTS: the facts matching the query under the filters of opts
SearchFTS(db, s, query, opts) ==
    {i \in DOMAIN db :
        /\ FTSMatch(query, db[i].content)
        /\ NamespaceFilter(s, opts.Namespaces, db[i].ns)
        /\ opts.OnlyActive => db[i].supBy = Nil
        /\ opts.Subject # "" => db[i].subject = opts.Subject}

\* searchVector: the facts with an embedding of positive similarity to
\* the query embedding under the filters of opts
SearchVector(db, s, queryEmb, opts) ==
    {i \in DOMAIN db :
        /\ db[i].emb # <<>>
        /\ NamespaceFilter(s, opts.Namespaces, db[i].ns)
        /\ opts.OnlyActive => db[i].supBy = Nil
        /\ opts.Subject # "" => db[i].subject = opts.Subject
        /\ CosinePositive(queryEmb, db[i].emb)}

\* Search on one table: mergeResults keeps every fact of either pass
\* (at most MaxResults of them, which is more than the model's tables hold).
Search(db, s, query, opts) ==
    SearchFTS(db, s, query, opts)
        \cup (IF Len(EmbedOf(query)) > 0
              THEN SearchVector(db, s, EmbedOf(query), opts) ELSE {})

\* SearchBatch: the result of each query, in order
SearchBatch(db, s, queries, opts) ==
    [k \in 1..Len(queries) |-> Search(db, s, queries[k], opts)]

----------------------------------------------------------------------------
(* Ranked search (search.go).  A query, a metadata key and a MATCH         *)
(* expression are sequences of characters.  A score is kept in            *)
(* thousandths (FTSScore, VecScore) and weights in tenths, an age and a    *)
(* half-life in the same unit of time with the age a multiple of the       *)
(* half-life, so that no rounding changes an order.                        *)

WhiteSpace == {" ", "\t", "\n"}

Digits == {"0", "1", "2", "3", "4", "5", "6", "7", "8", "9"}

Letters ==
    {"a", "b", "c", "d", "e", "f", "g", "h", "i", "j", "k", "l", "m",
     "n", "o", "p", "q", "r", "s", "t", "u", "v", "w", "x", "y", "z",
     "A", "B", "C", "D", "E", "F", "G", "H", "I", "J", "K", "L", "M",
     "N", "O", "P", "Q", "R", "S", "T", "U", "V", "W", "X", "Y", "Z"}

\* the string of a sequence of characters
RECURSIVE Str(_)
Str(t) == IF t = <<>> THEN "" ELSE t[1] \o Str(Tail(t))

\* strings.Fields: the maximal runs of characters that are not white space
RECURSIVE FieldsFrom(_, _, _)
FieldsFrom(raw, k, cur) ==
    LET done == IF cur = <<>> THEN <<>> ELSE <<cur>>
    IN  IF k > Len(raw) THEN done
        ELSE IF raw[k] \in WhiteSpace
        THEN done \o FieldsFrom(raw, k + 1, <<>>)
        ELSE FieldsFrom(raw, k + 1, Append(cur, raw[k]))

Fields(raw) == FieldsFrom(raw, 1, <<>>)

\* strings.ReplaceAll(w, `"`, `""`)
ReplaceAllNone(w) == w

RECURSIVE ReplaceAll(_)
ReplaceAll(w) ==
    IF w = <<>> THEN <<>>
    ELSE (IF w[1] = "\"" THEN <<"\"", "\"">> ELSE <<w[1]>>)
             \o ReplaceAll(Tail(w))

\* strings.Join(quoted, " ")
RECURSIVE Join(_)
Join(parts) ==
    IF Len(parts) = 0 THEN <<>>
    ELSE IF Len(parts) = 1 THEN parts[1]
    ELSE parts[1] \o <<" ">> \o Join(Tail(parts))

\* quoteFTSQuery: the MATCH expression of a raw query, empty when the
\* query has no word
quoteFTSQuery(raw) ==
    LET words == Fields(raw)
    IN  IF Len(words) = 0 THEN <<>>
        ELSE Join([k \in 1..Len(words) |->
                      <<"\"">> \o ReplaceAll(words[k]) \o <<"\"">>])

\* FTS5 reading a MATCH expression from position k on, inside a string
\* (inStr) or between strings: a string starts and ends with a double
\* quote, two double quotes inside it stand for one, and strings are
\* separated by white space.  The result is the strings read, and ok is
\* FALSE when anything else is met (a bare word, an operator, a column
\* filter, a string left open).
RECURSIVE Fts5Parse(_, _, _, _, _)
Fts5Parse(expr, k, inStr, cur, acc) ==
    IF k > Len(expr) THEN [ok |-> ~inStr, strs |-> acc]
    ELSE IF inStr
    THEN IF expr[k] # "\""
         THEN Fts5Parse(expr, k + 1, TRUE, Append(cur, expr[k]), acc)
         ELSE IF k < Len(expr) /\ expr[k + 1] = "\""
         THEN Fts5Parse(expr, k + 2, TRUE, Append(cur, "\""), acc)
         ELSE IF k < Len(expr) /\ expr[k + 1] \notin WhiteSpace
         THEN [ok |-> FALSE, strs |-> acc]
         ELSE Fts5Parse(expr, k + 1, FALSE, <<>>, Append(acc, cur))
    ELSE IF expr[k] \in WhiteSpace
    THEN Fts5Parse(expr, k + 1, FALSE, <<>>, acc)
    ELSE IF expr[k] = "\""
    THEN Fts5Parse(expr, k + 1, TRUE, <<>>, acc)
    ELSE [ok |-> FALSE, strs |-> acc]

Fts5Strings(expr) == Fts5Parse(expr, 1, FALSE, <<>>, <<>>)

\* The FTS5 tokenizer on a string: its runs of letters and digits.
RECURSIVE Fts5Tokens(_, _, _)
Fts5Tokens(str, k, cur) ==
    LET done == IF cur = <<>> THEN {} ELSE {Str(cur)}
    IN  IF k > Len(str) THEN done
        ELSE IF str[k] \in Letters \cup Digits
        THEN Fts5Tokens(str, k + 1, Append(cur, str[k]))
        ELSE done \cup Fts5Tokens(str, k + 1, <<>>)

\* memstore_facts_fts MATCH ?: every string of the expression has a token
\* and all its tokens are words of the content
Fts5Match(expr, content) ==
    LET strs == Fts5Strings(expr).strs
    IN  /\ Fts5Strings(expr).ok /\ strs # <<>>
        /\ \A k \in 1..Len(strs) :
              /\ Fts5Tokens(strs[k], 1, <<>>) # {}
              /\ Fts5Tokens(strs[k], 1, <<>>) \subseteq WordsOf(content)

\* validMetadataKey
validMetadataKey(key) ==
    /\ key # <<>>
    /\ \A k \in 1..Len(key) : key[k] \in Letters \cup Digits \cup {"_"}

validMetadataOps == {"=", "!=", "<", "<=", ">", ">="}

\* appendMetadataFilters returns an error
appendMetadataFiltersErr(filters) ==
    \E k \in 1..Len(filters) :
        \/ ~validMetadataKey(filters[k].Key)
        \/ filters[k].Op \notin validMetadataOps

\* json_extract(metadata, '$.key') op ? on a row; the comparison with a
\* key the metadata lacks is NULL, which IncludeNull lets through
MetadataWhere(metadata, mf) ==
    LET vals == {p[2] : p \in {q \in metadata : q[1] = Str(mf.Key)}}
    IN  IF vals = {} THEN mf.IncludeNull
        ELSE \E v \in vals :
                CASE mf.Op = "=" -> v = mf.Value
                  [] mf.Op = "!=" -> v # mf.Value
                  [] mf.Op = "<" -> v < mf.Value
                  [] mf.Op = "<=" -> v <= mf.Value
                  [] mf.Op = ">" -> v > mf.Value
                  [] OTHER -> v >= mf.Value

\* the WHERE clause the two passes share: namespace, OnlyActive, Subject,
\* Category and the metadata filters (CreatedAfter and CreatedBefore are
\* nil in the options of the model)
SearchWhere(s, opts, r) ==
    /\ NamespaceFilter(s, opts.Namespaces, r.ns)
    /\ opts.OnlyActive => r.supBy = Nil
    /\ opts.Subject # "" => r.subject = opts.Subject
    /\ opts.Category # "" => r.category = opts.Category
    /\ \A k \in 1..Len(opts.MetadataFilters) :
          MetadataWhere(r.meta, opts.MetadataFilters[k])

\* if opts.MaxResults <= 0 { opts.MaxResults = 20 }
defaultMaxResults == 20

\* the defaults Search and SearchBatch set in their copy of opts
WithDefaults(opts) ==
    LET zero == opts.FTSWeight = 0 /\ opts.VecWeight = 0
    IN  [opts EXCEPT
            !.MaxResults = IF @ <= 0 THEN defaultMaxResults ELSE @,
            !.FTSWeight = IF zero THEN 6 ELSE @,
            !.VecWeight = IF zero THEN 4 ELSE @]

\* a[:limit] when len(a) > limit
TruncateNever(sq, limit) == sq

Truncate(sq, limit) ==
    IF Len(sq) > limit THEN SubSeq(sq, 1, limit) ELSE sq

\* sort.Slice(a, func(i, j) { return a[i].score > a[j].score }), and ORDER
\* BY rank: scores do not increase along the result.  The order of equal
\* scores is not determined (the sort is not stable and mergeResults
\* ranges over a map); tie says whether they come out by increasing or by
\* decreasing id.
RECURSIVE SortByScore(_, _)
SortByScore(S, tie) ==
    IF S = {} THEN <<>>
    ELSE LET first == CHOOSE r \in S : \A q \in S :
                         \/ r.score > q.score
                         \/ /\ r.score = q.score
                            /\ IF tie = "up" THEN r.id <= q.id
                               ELSE r.id >= q.id
         IN  <<first>> \o SortByScore(S \ {first}, tie)

\* -rank, the BM25 score of a matching row: higher for a content with
\* fewer words beside those of the query
Bm25(expr, content) ==
    IF Cardinality(WordsOf(content)) <= Len(Fts5Strings(expr).strs)
    THEN 2000 ELSE 1000

\* searchFTS: [err, run, expr, res]; no query runs for a query without a
\* word, and the metadata filters are looked at only after that
searchFTS(db, s, query, opts, tie) ==
    LET expr == quoteFTSQuery(query)
        hits == {[id |-> i, score |-> Bm25(expr, db[i].content)] :
                    i \in {j \in DOMAIN db :
                             /\ Fts5Match(expr, db[j].content)
                             /\ SearchWhere(s, opts, db[j])}}
    IN  IF expr = <<>>
        THEN [err |-> FALSE, run |-> FALSE, expr |-> expr, res |-> <<>>]
        ELSE IF appendMetadataFiltersErr(opts.MetadataFilters)
        THEN [err |-> TRUE, run |-> FALSE, expr |-> expr, res |-> <<>>]
        ELSE [err |-> FALSE, run |-> TRUE, expr |-> expr,
              res |-> Truncate(SortByScore(hits, tie),
                               opts.MaxResults * 2)]

\* the integer square root
Sqrt(n) == CHOOSE r \in 0..1000 : r * r <= n /\ n < (r + 1) * (r + 1)

\* CosineSimilarity in thousandths: 0 for vectors of different length,
\* empty vectors and vectors of zero magnitude
CosineSimilarity(a, b) ==
    IF Len(a) # Len(b) \/ Len(a) = 0 \/ Dot(a, a) * Dot(b, b) = 0 THEN 0
    ELSE LET sq == (Dot(a, b) * Dot(a, b) * 1000000)
                       \div (Dot(a, a) * Dot(b, b))
         IN  IF Dot(a, b) < 0 THEN 0 - Sqrt(sq) ELSE Sqrt(sq)

\* searchVector: [err, res]
searchVector(db, s, queryEmb, opts, tie) ==
    LET candidates ==
            {[id |-> i, score |-> CosineSimilarity(queryEmb, db[i].emb)] :
                i \in {j \in DOMAIN db :
                         /\ db[j].emb # <<>>
                         /\ SearchWhere(s, opts, db[j])
                         /\ CosineSimilarity(queryEmb, db[j].emb) > 0}}
    IN  IF appendMetadataFiltersErr(opts.MetadataFilters)
        THEN [err |-> TRUE, res |-> <<>>]
        ELSE [err |-> FALSE,
              res |-> Truncate(SortByScore(candidates, tie),
                               opts.MaxResults * 2)]

\* now.Sub(r.Fact.CreatedAt): a fact given the CreatedAt of Created is two
\* units old, a fact stamped by Insert is new
AgeOf(createdAt) == IF createdAt = Created THEN 2 ELSE 0

\* 2 to the power n
RECURSIVE Pow2(_)
Pow2(n) == IF n <= 0 THEN 1 ELSE 2 * Pow2(n - 1)

\* if opts.DecayHalfLife > 0 { r.Combined *= math.Pow(0.5, age/half-life) }
Decay(combined, createdAt, halfLife) ==
    IF halfLife > 0 THEN combined \div Pow2(AgeOf(createdAt) \div halfLife)
    ELSE combined

\* the score of id in a result list of a pass, 0 when it is not there
ScoreIn(res, id) ==
    IF \E k \in 1..Len(res) : res[k].id = id
    THEN res[CHOOSE k \in 1..Len(res) : res[k].id = id].score
    ELSE 0

\* mergeResults: the facts of either pass once each, the FTS score
\* divided by the highest one, Combined, the sort and the cut
mergeResults(db, fts, vec, opts, tie) ==
    LET scores == {fts[k].score : k \in 1..Len(fts)}
        maxFTS == IF fts = <<>> THEN 0
                  ELSE CHOOSE m \in scores : \A q \in scores : m >= q
        norm(id) == IF maxFTS > 0 THEN (ScoreIn(fts, id) * 1000) \div maxFTS
                    ELSE ScoreIn(fts, id)
        byID == {fts[k].id : k \in 1..Len(fts)}
                    \cup {vec[k].id : k \in 1..Len(vec)}
        merged == {[id |-> i, category |-> db[i].category,
                    createdAt |-> db[i].createdAt,
                    FTSScore |-> norm(i), VecScore |-> ScoreIn(vec, i),
                    score |-> Decay(opts.FTSWeight * norm(i)
                                      + opts.VecWeight * ScoreIn(vec, i),
                                    db[i].createdAt,
                                    opts.DecayHalfLife)] :
                      i \in byID}
    IN  Truncate(SortByScore(merged, tie), opts.MaxResults)

\* The passes and the merge for one query, as Search and SearchBatch run
\* them under the lock: [err, fts, lists], lists holding the result.
SearchOne(db, s, query, queryEmb, opts, tie) ==
    LET fts == searchFTS(db, s, query, opts, tie)
        vec == IF Len(queryEmb) > 0
               THEN searchVector(db, s, queryEmb, opts, tie)
               ELSE [err |-> FALSE, res |-> <<>>]
    IN  IF fts.err \/ vec.err
        THEN [err |-> TRUE, fts |-> fts, res |-> <<>>]
        ELSE [err |-> FALSE, fts |-> fts,
              res |-> mergeResults(db, fts.res, vec.res, opts, tie)]

\* embedWithRetry: the e.Embed requests made when the first fails attempts
\* fail, each for all the texts; a failure with the context cancelled ends
\* the loop
EmbedRequestsEach(texts, fails, cancelled) ==
    [k \in 1..Len(texts) |-> <<texts[k]>>]

EmbedRequests(texts, fails, cancelled) ==
    LET n == IF fails = 0 THEN 1
             ELSE IF cancelled THEN 1
             ELSE IF fails > embedMaxRetries THEN embedMaxRetries + 1
             ELSE fails + 1
    IN  [k \in 1..n |-> texts]

\* embedWithRetry returns an error
EmbedErr(fails, cancelled) ==
    fails > embedMaxRetries \/ (fails > 0 /\ cancelled)

\* What a call of Search, SearchBatch or List did: the e.Embed requests
\* (after fails failed ones the embedder answers embs), the locks taken,
\* the outcome of the lexical pass of each query and the result list of
\* each query.
NoFound ==
    [op |-> "none", s |-> "", embedder |-> "nil", queries |-> <<>>,
     embs |-> <<>>, fails |-> 0, opts |-> <<>>, err |-> FALSE,
     requests |-> <<>>, locks |-> <<>>, fts |-> <<>>, lists |-> <<>>,
     before |-> <<>>]

\* SQLiteStore.Search with the store's embedder answering embs (after
\* fails failed attempts)
SearchCall(db, s, embedder, query, embs, fails, cancelled, opts, tie) ==
    LET o == WithDefaults(opts)
        base == [NoFound EXCEPT !.op = "Search", !.s = s,
                    !.embedder = embedder, !.queries = <<query>>,
                    !.embs = embs, !.fails = fails, !.opts = opts,
                    !.before = db]
        reqs == EmbedRequests(<<query>>, fails, cancelled)
        one == SearchOne(db, s, query, embs[1], o, tie)
    IN  IF embedder = "nil" THEN [base EXCEPT !.err = TRUE]
        ELSE IF EmbedErr(fails, cancelled) \/ Len(embs) = 0
        THEN [base EXCEPT !.err = TRUE, !.requests = reqs]
        ELSE [base EXCEPT !.err = one.err, !.requests = reqs,
                          !.locks = <<"RLock", "RUnlock">>,
                          !.fts = <<one.fts>>,
                          !.lists = IF one.err THEN <<>> ELSE <<one.res>>]

\* SQLiteStore.SearchBatch: the vector pass of query i runs only when
\* i < len(queryEmbs) and the vector is not empty; the first error of a
\* pass ends the call
SearchBatchCall(db, s, embedder, queries, embs, fails, cancelled, opts, tie) ==
    LET o == WithDefaults(opts)
        base == [NoFound EXCEPT !.op = "SearchBatch", !.s = s,
                    !.embedder = embedder, !.queries = queries,
                    !.embs = embs, !.fails = fails, !.opts = opts,
                    !.before = db]
        reqs == EmbedRequests(queries, fails, cancelled)
        one == [i \in 1..Len(queries) |->
                   SearchOne(db, s, queries[i],
                             IF i <= Len(embs) THEN embs[i] ELSE <<>>,
                             o, tie)]
        failed == \E i \in 1..Len(queries) : one[i].err
    IN  IF Len(queries) = 0 THEN base
        ELSE IF embedder = "nil" THEN [base EXCEPT !.err = TRUE]
        ELSE IF EmbedErr(fails, cancelled)
        THEN [base EXCEPT !.err = TRUE, !.requests = reqs]
        ELSE [base EXCEPT !.err = failed, !.requests = reqs,
                          !.locks = <<"RLock", "RUnlock">>,
                          !.fts = [i \in 1..Len(queries) |-> one[i].fts],
                          !.lists = IF failed THEN <<>>
                                    ELSE [i \in 1..Len(queries) |->
                                             one[i].res]]

\* SQLiteStore.List with QueryOpts{..., MetadataFilters}
ListCall(db, s, opts) ==
    LET base == [NoFound EXCEPT !.op = "List", !.s = s, !.opts = opts,
                    !.before = db, !.locks = <<"RLock", "RUnlock">>]
        hits == OrderByID({i \in DOMAIN db : SearchWhere(s, opts, db[i])})
    IN  IF appendMetadataFiltersErr(opts.MetadataFilters)
        THEN [base EXCEPT !.err = TRUE]
        ELSE [base EXCEPT !.lists =
                 <<IF opts.Limit > 0 /\ opts.Limit < Len(hits)
                   THEN SubSeq(hits, 1, opts.Limit) ELSE hits>>]

----------------------------------------------------------------------------
(* Embedder calls (embedding.go).  embedWithRetry is a loop of e.Embed     *)
(* calls; its callers are Single (one text), SearchBatch (the queries) and *)
(* EmbedFacts (the contents of a batch), each of which then looks at what  *)
(* it was given.  The caller's context can be cancelled at any moment.     *)

Callers == {"Single", "SearchBatch", "EmbedFacts"}

\* No invocation.  During one: the step pc, the caller, the number n of
\* texts, the loop variable attempt, whether ctx is cancelled, the outcome
\* out of embedWithRetry and the number got of vectors it returns, and then
\* the outcome res of the caller and the number used of vectors it wrote
\* (EmbedFacts) or searched with (Single, SearchBatch).
RetryIdle ==
    [pc |-> "idle", caller |-> "none", n |-> 0, attempt |-> 0,
     cancelled |-> FALSE, out |-> "none", got |-> 0, res |-> "none",
     used |-> 0]

\* What a run records of an invocation: the e.Embed calls made and failed,
\* the call that succeeded and what it returned, whether a failed attempt
\* ended with ctx cancelled, and whether a call was made after that (late)
\* or after a success (extra).
RetryHistIdle ==
    [calls |-> 0, fails |-> 0, okAt |-> 0, ret |-> 0, sawCancel |-> FALSE,
     late |-> FALSE, extra |-> FALSE]

\* if attempt < embedMaxRetries && ctx.Err() != nil { break }
RetryBreaksNever(attempt, cancelled) == FALSE

RetryBreaks(attempt, cancelled) ==
    attempt < embedMaxRetries /\ cancelled

\* A caller invokes embedWithRetry on n texts.
RetryCall(caller, n, cancelled) ==
    /\ rt.pc \in {"idle", "done"}
    /\ caller = "Single" => n = 1
    /\ rt' = [RetryIdle EXCEPT !.pc = "attempt", !.caller = caller,
                               !.n = n, !.cancelled = cancelled]

\* The caller's context is cancelled.
RetryCancel ==
    /\ rt.pc = "attempt" /\ ~rt.cancelled
    /\ rt' = [rt EXCEPT !.cancelled = TRUE]

\* One iteration of the loop: e.Embed returns m vectors or fails.
RetryAttempt(ok, m) ==
    /\ rt.pc = "attempt"
    /\ rt' = IF ok THEN [rt EXCEPT !.pc = "check", !.out = "ok", !.got = m]
             ELSE IF RetryBreaks(rt.attempt, rt.cancelled)
             THEN [rt EXCEPT !.pc = "check", !.out = "err"]
             ELSE IF rt.attempt < embedMaxRetries
             THEN [rt EXCEPT !.attempt = @ + 1]
             ELSE [rt EXCEPT !.pc = "check", !.out = "err"]

\* What the caller does with the outcome.  Single fails on an empty
\* response and takes the first vector; EmbedFacts fails unless it has a
\* vector for each fact of the batch, and then writes them; SearchBatch
\* runs the vector pass for each query i < len(queryEmbs).
CallerCheck ==
    /\ rt.pc = "check"
    /\ rt' =
         IF rt.out = "err" THEN [rt EXCEPT !.pc = "done", !.res = "err"]
         ELSE CASE rt.caller = "Single" ->
                     IF rt.got = 0
                     THEN [rt EXCEPT !.pc = "done", !.res = "err"]
                     ELSE [rt EXCEPT !.pc = "done", !.res = "ok",
                                     !.used = 1]
                [] rt.caller = "EmbedFacts" ->
                     IF rt.got # rt.n
                     THEN [rt EXCEPT !.pc = "done", !.res = "err"]
                     ELSE [rt EXCEPT !.pc = "done", !.res = "ok",
                                     !.used = rt.n]
                [] OTHER ->
                     [rt EXCEPT !.pc = "done", !.res = "ok",
                                !.used = IF rt.got < rt.n THEN rt.got
                                         ELSE rt.n]

----------------------------------------------------------------------------
(* Opening a store (sqlite.go: NewSQLiteStore, migrate, validateEmbedder,  *)
(* recordEmbedder).  The schema is the stored version (0 when              *)
(* memstore_version has no row) and the set of migration statements whose  *)
(* changes are in effect.                                                  *)

schemaVersion == 5

\* The statements of migrateV1 .. migrateV5 in the order they run: V1 and
\* V2 are CREATE ... IF NOT EXISTS throughout, V3 is an ALTER TABLE ADD
\* COLUMN and a CREATE INDEX IF NOT EXISTS, V4 one ALTER TABLE ADD COLUMN
\* and V5 two.
MigrationSteps == <<"v1", "v2", "v3a", "v3b", "v4", "v5a", "v5b">>

\* the migration a statement belongs to
StepVersion(st) ==
    CASE st = "v1" -> 1
      [] st = "v2" -> 2
      [] st \in {"v3a", "v3b"} -> 3
      [] st = "v4" -> 4
      [] OTHER -> 5

\* as if every statement were written with IF NOT EXISTS
IdempotentAll(st) == TRUE

\* IF NOT EXISTS statements succeed when their object is there already;
\* ALTER TABLE ADD COLUMN fails on a column that exists.
Idempotent(st) == st \in {"v1", "v2", "v3b"}

\* the schema a release whose schemaVersion was v leaves behind
SchemaAt(v) ==
    [version |-> v,
     has |-> {MigrationSteps[k] : k \in {j \in 1..Len(MigrationSteps) :
                                     StepVersion(MigrationSteps[j]) <= v}}]

\* The statements migrate runs from statement k on, for a stored version
\* from: those of the migrations above from, until one fails, which is the
\* statement failAt (whose failure has an outside cause) or an ALTER TABLE
\* of a column already there.  The result is the statements in effect, the
\* statements executed and whether all succeeded.
RECURSIVE RunMigrations(_, _, _, _, _)
RunMigrations(has, done, k, from, failAt) ==
    IF k > Len(MigrationSteps) THEN [has |-> has, done |-> done, ok |-> TRUE]
    ELSE LET st == MigrationSteps[k]
         IN  IF StepVersion(st) <= from
             THEN RunMigrations(has, done, k + 1, from, failAt)
             ELSE IF st = failAt \/ (~Idempotent(st) /\ st \in has)
             THEN [has |-> has, done |-> done, ok |-> FALSE]
             ELSE RunMigrations(has \cup {st}, done \cup {st}, k + 1,
                                from, failAt)

\* if version >= schemaVersion { return nil }
AtCurrentNever(v) == FALSE

AtCurrent(v) == v >= schemaVersion

\* the number of the last migration of which a statement is in effect
LastPresent(has) ==
    IF has = {} THEN 0
    ELSE CHOOSE v \in {StepVersion(st) : st \in has} :
             \A st \in has : StepVersion(st) <= v

\* the statements of the migrations above the version v
StepsAbove(v) ==
    {MigrationSteps[k] : k \in {j \in 1..Len(MigrationSteps) :
                                    StepVersion(MigrationSteps[j]) > v}}

\* migrate: nothing at the current version; else the migrations above the
\* stored version and, when all succeeded, the write of schemaVersion to
\* memstore_version (which fails when failAt is "version").
Migrate(sch, failAt) ==
    IF AtCurrent(sch.version)
    THEN [schema |-> sch, done |-> {}, ok |-> TRUE]
    ELSE LET r == RunMigrations(sch.has, {}, 1, sch.version, failAt)
         IN  IF r.ok /\ failAt # "version"
             THEN [schema |-> [version |-> schemaVersion, has |-> r.has],
                   done |-> r.done, ok |-> TRUE]
             ELSE [schema |-> [version |-> sch.version, has |-> r.has],
                   done |-> r.done, ok |-> FALSE]

\* memstore_meta without and with the keys embedding_model, embedding_dim
NoMeta == [model |-> "", dim |-> 0]

\* the embedders a store is opened with: nil, or one of two models
Embedders == {"nil", "m1", "m2"}

\* validateEmbedder fails: a model is recorded and differs from the
\* embedder's
ValidateErrNever(m, model) == FALSE

ValidateErr(m, model) == m.model # "" /\ m.model # model

\* recordEmbedder: the model and dimension are inserted unless an
\* embedding_model is recorded
RecordEmbedder(m, model, dim) ==
    IF m.model # "" THEN m ELSE [model |-> model, dim |-> dim]

\* A namespace without a store, and the store NewSQLiteStore returns.
StoreClosed == [open |-> FALSE, model |-> "nil"]

StoreOf(model) == [open |-> TRUE, model |-> model]

\* What a run records of the last NewSQLiteStore call: the embedder given,
\* the model recorded and the version stored before it, the models that
\* had written embeddings, the statements migrate executed, whether a
\* statement failed of an outside cause, whether the call changed the
\* schema, the meta table or a fact, whether it left every fact as it was,
\* whether migrate succeeded and whether a store was returned; and whether the migrate of the call before it had
\* failed.
NoOpen ==
    [called |-> FALSE, model |-> "nil", rec |-> "", from |-> 0,
     prior |-> {}, done |-> {}, clean |-> TRUE, changed |-> FALSE,
     facts |-> TRUE, migrated |-> TRUE, ok |-> TRUE, retry |-> FALSE]

\* NewSQLiteStore(db, embedder, ns): migrate, then validateEmbedder when an
\* embedder is given; a store is returned when neither fails.
NewSQLiteStoreErr(sch, m, model, failAt) ==
    \/ ~Migrate(sch, failAt).ok
    \/ model # "nil" /\ ValidateErr(m, model)

NewSQLiteStore(ns, model, failAt) ==
    /\ schema' = Migrate(schema, failAt).schema
    /\ stores' = IF NewSQLiteStoreErr(schema, meta, model, failAt)
                 THEN stores
                 ELSE [stores EXCEPT ![ns] = StoreOf(model)]
    /\ UNCHANGED <<dbVars, meta>>

\* Insert through the store of ns of a fact that carries an embedding its
\* caller computed with the store's embedder (as HandleStore and Extract
\* do), or none.
StoreInsert(ns, f, embedded) ==
    /\ stores[ns].open
    /\ embedded => stores[ns].model # "nil"
    /\ Insert(ns, [f EXCEPT !.emb = IF embedded THEN EmbedOf(f.content)
                                    ELSE <<>>])
    /\ UNCHANGED <<schema, meta, stores>>

\* SetEmbedding through the store of ns, of a vector of its embedder
StoreSetEmbedding(ns, id) ==
    /\ stores[ns].open /\ stores[ns].model # "nil"
    /\ id \in DOMAIN rows
    /\ SetEmbedding(ns, id, EmbedOf(rows[id].content))
    /\ UNCHANGED <<schema, meta, stores>>

\* EmbedFacts through the store of ns, up to the end of its scan
StoreEmbedFactsScan(ns, batchSize) ==
    /\ stores[ns].open /\ stores[ns].model # "nil"
    /\ EmbedFactsScan(ns, batchSize)
    /\ UNCHANGED <<schema, meta, stores>>

\* One turn of its batch loop: after the first successful embedding of a
\* call (total == 0 && i == 0) recordEmbedder runs, then the updates.
StoreEmbedFactsBatch(ns, embedOk) ==
    /\ stores[ns].open /\ stores[ns].model # "nil"
    /\ EmbedFactsBatch(ns, embedOk)
    /\ meta' = IF embedOk /\ pending[ns].total = 0
               THEN RecordEmbedder(meta, stores[ns].model,
                       Len(EmbedOf(BatchOf(pending[ns])[1].content)))
               ELSE meta
    /\ UNCHANGED <<schema, stores>>

----------------------------------------------------------------------------
(* Extraction (extract.go).  Extract asks the generator for records and,   *)
(* for each in turn, checks for a duplicate, embeds the content, inserts   *)
(* the fact and tries to supersede an existing one.  Every store call      *)
(* takes the store's lock on its own, so the calls of other goroutines run *)
(* between them.  The extractor and its store share one embedder.          *)

\* similarityThreshold, 0.85, in hundredths
similarityThreshold == 85

\* CosineSimilarity(a, b) >= similarityThreshold on integer vectors:
\* dot / (|a| |b|) >= 85 / 100, both sides squared
AtLeastThreshold(a, b) ==
    /\ CosinePositive(a, b)
    /\ 100 * 100 * Dot(a, b) * Dot(a, b)
          >= similarityThreshold * similarityThreshold
                * Dot(a, a) * Dot(b, b)

\* CosineSimilarity(n, a) > CosineSimilarity(n, b) where the former is
\* positive
SimGreater(n, a, b) ==
    /\ CosinePositive(n, a)
    /\ \/ ~CosinePositive(n, b)
       \/ Dot(n, a) * Dot(n, a) * Dot(b, b)
             > Dot(n, b) * Dot(n, b) * Dot(a, a)

\* MetadataConflicts: both objects are non-empty and a shared key has
\* different values; metadata is a set of <<key, value>> pairs
MetadataConflicts(a, b) ==
    /\ a # {} /\ b # {}
    /\ \E x \in a, y \in b : x[1] = y[1] /\ x[2] # y[2]

\* The SearchOpts of trySupersedeExisting (MaxResults 10 is more than the
\* model's tables hold).
SupersedeSearchOpts(newFact) ==
    [Namespaces |-> {}, Subject |-> newFact.subject, OnlyActive |-> TRUE]

\* The results the loop of trySupersedeExisting does not skip.
Candidates(db, s, newID, newFact) ==
    {i \in Search(db, s, newFact.content, SupersedeSearchOpts(newFact)) :
        /\ i # newID
        /\ db[i].emb # <<>>
        /\ ~MetadataConflicts(newFact.meta, db[i].meta)}

\* The values bestID can have after the loop, other than 0: a candidate of
\* positive similarity that no candidate exceeds (of several such, the
\* first in the order of the results, which sort.Slice leaves open).
BestOf(db, s, newID, newFact) ==
    LET cs == Candidates(db, s, newID, newFact)
    IN  {i \in cs :
            /\ CosinePositive(newFact.emb, db[i].emb)
            /\ \A j \in cs :
                  ~SimGreater(newFact.emb, db[j].emb, db[i].emb)}

\* The ids trySupersedeExisting goes on to supersede: none when bestSim is
\* below the threshold.
Chosen(db, s, newID, newFact) ==
    {i \in BestOf(db, s, newID, newFact) :
        AtLeastThreshold(newFact.emb, db[i].emb)}

\* The Fact value Extract builds; NoFact when it has none in hand.
NoFact ==
    [content |-> "", subject |-> "", meta |-> {}, supBy |-> Nil,
     emb |-> <<>>]

\* The extractor between calls.  During a call: the step pc it is about to
\* take, the records still to process, opts.Subject, the fact in hand and
\* its id, the candidate found, and the counters of the ExtractResult.
ExtractIdle ==
    [pc |-> "idle", queue |-> <<>>, subject |-> "", fact |-> NoFact,
     id |-> Nil, best |-> Nil, inserted |-> 0, superseded |-> 0,
     duplicates |-> 0, errors |-> 0, err |-> FALSE]

\* What a run records of the last Extract call: whether its generator
\* failed, the failures it met after that, the records its response
\* parsed to and those whose processing has ended.
ExtractHistIdle == [gen |-> FALSE, failures |-> 0, given |-> 0, seen |-> 0]

\* The last step was no Supersede call of automatic supersession.  Of one:
\* the candidate, whether its row was gone or superseded when the call was
\* made, whether the call changed the table, and what it added to the
\* counters of the result.
NoLink ==
    [best |-> Nil, gone |-> FALSE, superseded |-> FALSE, changed |-> FALSE,
     dErrors |-> 0, dSuperseded |-> 0, dInserted |-> 0]

\* What a run records of the records of the last Extract call: how many
\* were blank, how many ended with an error of Exists, of the embedder or
\* of Insert (lost); and of the last step, when it was one of the loop
\* body: where it began (pc), how the record fared in it (last), whether
\* the table held the record's content and subject before it (was), and
\* whether it left the table (same) and the result (quiet) as they were.
NoAcct ==
    [blank |-> 0, lost |-> 0, pc |-> "idle", last |-> "none",
     was |-> FALSE, same |-> TRUE, quiet |-> TRUE]

\* continue: on to the next record, or return the result after the last
NextRecordStop(e) ==
    [e EXCEPT !.pc = "idle", !.queue = <<>>,
              !.fact = NoFact, !.id = Nil, !.best = Nil]

NextRecord(e) ==
    [e EXCEPT !.pc = IF Len(e.queue) = 0 THEN "idle" ELSE "exists",
              !.fact = NoFact, !.id = Nil, !.best = Nil]

\* Extract up to its loop: a generator failure is the top-level error, a
\* response that does not parse is the first entry of result.Errors and
\* leaves no record to process.
ExtractCall(records, optSubject, genOk, parseOk) ==
    /\ ext.pc = "idle"
    /\ ext' = IF ~genOk THEN [ExtractIdle EXCEPT !.err = TRUE]
              ELSE IF ~parseOk THEN [ExtractIdle EXCEPT !.errors = 1]
              ELSE NextRecord([ExtractIdle EXCEPT !.queue = records,
                                                  !.subject = optSubject])
    /\ UNCHANGED dbVars

\* The loop body up to the dedup check: a blank content is skipped, the
\* subject defaults to opts.Subject, a failed Exists is a per-fact error,
\* a duplicate is counted.
ExtractExists(s, existsOk) ==
    /\ ext.pc = "exists"
    /\ LET ef == Head(ext.queue)
           subject == IF ef.subject = "" THEN ext.subject ELSE ef.subject
           rest == [ext EXCEPT !.queue = Tail(ext.queue)]
       IN  ext' =
             IF ef.content = "" THEN NextRecord(rest)
             ELSE IF ~existsOk
             THEN NextRecord([rest EXCEPT !.errors = @ + 1])
             ELSE IF Exists(rows, s, ef.content, subject)
             THEN NextRecord([rest EXCEPT !.duplicates = @ + 1])
             ELSE [rest EXCEPT !.pc = "insert",
                               !.fact = [NoFact EXCEPT
                                            !.content = ef.content,
                                            !.subject = subject]]
    /\ UNCHANGED dbVars

\* The embedding and the Insert of the fact; a failure of either is a
\* per-fact error.
ExtractInsert(s, embedOk, insertOk) ==
    /\ ext.pc = "insert"
    /\ IF embedOk /\ insertOk
       THEN LET fact == [ext.fact EXCEPT !.emb = EmbedOf(ext.fact.content)]
            IN  /\ Insert(s, fact)
                /\ ext' = [ext EXCEPT !.pc = "search", !.fact = fact,
                                      !.id = nextID]
       ELSE /\ ext' = NextRecord([ext EXCEPT !.errors = @ + 1])
            /\ UNCHANGED dbVars

\* trySupersedeExisting up to its Supersede call: the Search (which fails
\* when its own query embedding fails) and the choice of the best
\* candidate.  With no candidate the fact is appended to Inserted.
ExtractSearch(s, searchOk) ==
    /\ ext.pc = "search"
    /\ IF Len(ext.fact.emb) = 0 \/ ext.id = 0
       THEN ext' = NextRecord([ext EXCEPT !.inserted = @ + 1])
       ELSE IF ~searchOk
       THEN ext' = NextRecord([ext EXCEPT !.errors = @ + 1,
                                          !.inserted = @ + 1])
       ELSE IF Chosen(rows, s, ext.id, ext.fact) = {}
       THEN ext' = NextRecord([ext EXCEPT !.inserted = @ + 1])
       ELSE \E c \in Chosen(rows, s, ext.id, ext.fact) :
               ext' = [ext EXCEPT !.pc = "supersede", !.best = c]
    /\ UNCHANGED dbVars

\* Supersede(bestID, newFact.ID) and the rest of the loop body: a failure
\* is a per-fact error, a success counts in Superseded, and the fact is
\* appended to Inserted either way.
ExtractSupersede(s) ==
    /\ ext.pc = "supersede"
    /\ Supersede(s, ext.best, ext.id)
    /\ ext' = NextRecord(
                 IF SupersedeErr(rows, s, ext.best)
                 THEN [ext EXCEPT !.errors = @ + 1, !.inserted = @ + 1]
                 ELSE [ext EXCEPT !.superseded = @ + 1,
                                  !.inserted = @ + 1])

----------------------------------------------------------------------------
(* Export (transfer.go): every row of memstore_facts in the order of the   *)
(* ids, as an ExportedFact; embeddings and confirmations are left out.     *)
(* A metadata column that is NULL or empty gives no Metadata, a NULL       *)
(* superseded_at no SupersededAt, and created_at is parsed into CreatedAt. *)

RECURSIVE ExportRows(_, _, _)
ExportRows(db, ids, k) ==
    IF k > Len(ids) THEN <<>>
    ELSE <<[id |-> ids[k], ns |-> db[ids[k]].ns,
            content |-> db[ids[k]].content,
            subject |-> db[ids[k]].subject,
            category |-> db[ids[k]].category,
            meta |-> db[ids[k]].meta,
            supBy |-> db[ids[k]].supBy,
            supAt |-> db[ids[k]].supAt,
            createdAt |-> db[ids[k]].createdAt]>>
         \o ExportRows(db, ids, k + 1)

\* SELECT ... FROM memstore_facts ORDER BY id
ExportActiveOnly(db) ==
    ExportRows(db, OrderByID({i \in DOMAIN db : db[i].supBy = Nil}), 1)

\* an export that leaves superseded_by out
ExportUnlinked(db) ==
    LET e == ExportRows(db, OrderByID(DOMAIN db), 1)
    IN  [k \in DOMAIN e |-> [e[k] EXCEPT !.supBy = Nil]]

Export(db) == ExportRows(db, OrderByID(DOMAIN db), 1)

\* No export.  Else the phase of the round trip and data.Facts.
NoExport == [pc |-> "build", data |-> <<>>]

\* The table that was exported, or the one imported into as it was before;
\* and, of the Import, the idMap and the ids of the rows it inserted once
\* pass 1 ran, and the links <<id, superseded_by>> of the rows pass 2
\* changed.
NoOrigin == [db |-> <<>>, idMap |-> <<>>, fresh |-> {}, made |-> {}]

\* Export(ctx, srcDB)
ExportCall ==
    /\ xd.pc = "build"
    /\ xd' = [pc |-> "exported", data |-> Export(rows)]
    /\ UNCHANGED dbVars

\* The export is taken to another database, new and opened once:
\* memstore_facts is empty and its AUTOINCREMENT sequence begins.
OpenDestination ==
    /\ xd.pc = "exported"
    /\ xd' = [xd EXCEPT !.pc = "fresh"]
    /\ rows' = <<>>
    /\ nextID' = 1
    /\ UNCHANGED <<imp, pending>>

\* Import(ctx, dstDB, data, ImportOpts{}) is modelled below; these are the
\* steps of the round trip it makes.
ImportBegun == xd' = [xd EXCEPT !.pc = "linking"]

ImportEnded == xd' = [xd EXCEPT !.pc = "done"]

----------------------------------------------------------------------------
(* Import (transfer.go).  The ExportData is a sequence of ExportedFact     *)
(* records; pass 1 inserts them through a store per namespace and fills    *)
(* idMap, pass 2 restores the links with a direct UPDATE.  Other callers   *)
(* may run between the two passes.                                         *)

ExportedFact(id, ns, content, supBy, supAt) ==
    [id |-> id, ns |-> ns, content |-> content, subject |-> "s1",
     category |-> "", meta |-> {}, supBy |-> supBy, supAt |-> supAt,
     createdAt |-> Now]

\* Exports the chain specification imports: a superseded fact with its
\* successor, with and without a superseded_at, and a fact whose successor
\* is not part of the export.
ImportSets ==
    {<<ExportedFact(1, "alpha", "c1", 2, at),
       ExportedFact(2, "alpha", "c2", Nil, Nil)>> : at \in {Nil, Now}}
    \cup {<<ExportedFact(1, "alpha", "c2", 2, Now)>>}

\* The facts of data in the order pass 1 visits them: namespace by namespace
\* (nsOrder, the iteration order of the byNS map), data order within one.
ImportOrder(data, nsOrder) ==
    IF Len(nsOrder) = 0 THEN <<>>
    ELSE SelectSeq(data, LAMBDA ef : ef.ns = nsOrder[1])
         \o SelectSeq(data, LAMBDA ef : ef.ns # nsOrder[1])

\* Pass 1 from fact k of the visiting order on: the table, the sequence
\* value and idMap after it.
RECURSIVE ImportPass1(_, _, _, _, _, _)
ImportPass1(order, k, skipDup, db, next, idMap) ==
    IF k > Len(order) THEN [db |-> db, next |-> next, idMap |-> idMap]
    ELSE LET ef == order[k] IN
         IF skipDup /\ Exists(db, ef.ns, ef.content, ef.subject)
         THEN ImportPass1(order, k + 1, skipDup, db, next, idMap)
         ELSE ImportPass1(order, k + 1, skipDup,
                  db @@ (next :> InsertRow(ef.ns,
                      [ns |-> ef.ns, content |-> ef.content,
                       subject |-> ef.subject, category |-> ef.category,
                       meta |-> ef.meta, createdAt |-> ef.createdAt,
                       supBy |-> Nil, emb |-> <<>>])),
                  next + 1,
                  idMap @@ (ef.id :> next))

\* UPDATE memstore_facts SET superseded_by = ?, superseded_at = ?
\* WHERE id = ? AND superseded_by IS NULL
ImportLinkWhereNoGuard(db, id) == {i \in DOMAIN db : i = id}

ImportLinkWhere(db, id) == {i \in DOMAIN db : i = id /\ db[i].supBy = Nil}

\* supersededByNewID, ok := idMap[*ef.SupersededBy]
LinkTargetRaw(idMap, ef) == ef.supBy

LinkTarget(idMap, ef) == idMap[ef.supBy]

\* Pass 2 from fact k of data on.
RECURSIVE ImportPass2(_, _, _, _)
ImportPass2(data, k, idMap, db) ==
    IF k > Len(data) THEN db
    ELSE LET ef == data[k] IN
         IF \/ ef.supBy = Nil
            \/ ef.id \notin DOMAIN idMap
            \/ ef.supBy \notin DOMAIN idMap
         THEN ImportPass2(data, k + 1, idMap, db)
         ELSE ImportPass2(data, k + 1, idMap,
                  [i \in DOMAIN db |->
                      IF i \in ImportLinkWhere(db, idMap[ef.id])
                      THEN [db[i] EXCEPT
                                !.supBy = LinkTarget(idMap, ef),
                                !.supAt = IF ef.supAt # Nil THEN ef.supAt
                                          ELSE ImportNow]
                      ELSE db[i]])

ImportIdle == [pc |-> "idle", data |-> <<>>, idMap |-> <<>>]

ImportInsertPass(data, nsOrder, skipDup) ==
    LET r == ImportPass1(ImportOrder(data, nsOrder), 1, skipDup,
                         rows, nextID, <<>>) IN
    /\ imp.pc = "idle"
    /\ rows' = r.db
    /\ nextID' = r.next
    /\ imp' = [pc |-> "link", data |-> data, idMap |-> r.idMap]
    /\ UNCHANGED pending

ImportLinkPass ==
    /\ imp.pc = "link"
    /\ rows' = ImportPass2(imp.data, 1, imp.idMap, rows)
    /\ imp' = ImportIdle
    /\ UNCHANGED <<nextID, pending>>

----------------------------------------------------------------------------
(* Vector codec (embedding.go): EncodeFloat32s and DecodeFloat32s.  A      *)
(* float32 is its sign bit, its 8 exponent bits and its 23 fraction bits;  *)
(* a uint32 is kept as its two 16-bit halves, a byte as 0 .. 255.          *)

Float32(sign, exp, frac) == [sign |-> sign, exp |-> exp, frac |-> frac]

\* math.Float32bits: the IEEE 754 pattern of f
Float32bits(f) ==
    [hi |-> f.sign * 2^15 + f.exp * 2^7 + (f.frac \div 2^16),
     lo |-> f.frac % 2^16]

\* math.Float32frombits: the float32 whose pattern is b
Float32frombits(b) ==
    Float32(b.hi \div 2^15, (b.hi \div 2^7) % 2^8, (b.hi % 2^7) * 2^16 + b.lo)

\* the four bytes of x, highest first
PutUint32BigEndian(x) ==
    <<x.hi \div 2^8, x.hi % 2^8, x.lo \div 2^8, x.lo % 2^8>>

\* binary.LittleEndian.PutUint32: the four bytes of x, lowest first
PutUint32(x) ==
    <<x.lo % 2^8, x.lo \div 2^8, x.hi % 2^8, x.hi \div 2^8>>

\* binary.LittleEndian.Uint32(buf[k:]), k counted from 1
Uint32(buf, k) ==
    [hi |-> buf[k + 2] + buf[k + 3] * 2^8, lo |-> buf[k] + buf[k + 1] * 2^8]

\* EncodeFloat32s: buf of len(v)*4 bytes, PutUint32(buf[i*4:], Float32bits(f))
EncodeFloat32s(v) ==
    [j \in 1..(Len(v) * 4) |->
        PutUint32(Float32bits(v[((j - 1) \div 4) + 1]))[((j - 1) % 4) + 1]]

\* DecodeFloat32s: n := len(buf) / 4 values, the bytes after them unread
DecodeFloat32s(buf) ==
    [i \in 1..(Len(buf) \div 4) |->
        Float32frombits(Uint32(buf, (i - 1) * 4 + 1))]

\* what codec keeps of a call: its name, the vector and the bytes
NoCodec == [op |-> "none", vec |-> <<>>, buf |-> <<>>]

EncodeCall(v) ==
    codec' = [op |-> "encode", vec |-> v, buf |-> EncodeFloat32s(v)]

DecodeCall(buf) ==
    codec' = [op |-> "decode", vec |-> DecodeFloat32s(buf), buf |-> buf]

----------------------------------------------------------------------------
(* History (sqlite.go), statement by statement.                            *)

\* No History call yet.  Of one: the step pc it is about to take, the id
\* asked for, the row id the running loop is at, the ids the running loop
\* has appended (seen), whether it appended one of them again, and what
\* the last call returned (ret).
WalkIdle ==
    [pc |-> "idle", id |-> 0, cur |-> 0, seen |-> {}, again |-> FALSE,
     ret |-> "none"]

\* History(ctx, id, ""): s.mu.RLock() by goroutine t1 on store object A;
\* without an id and a subject the call returns its error at once.
HistoryBegin(id) ==
    /\ walk.pc = "idle"
    /\ CanRLock(mu["A"])
    /\ mu' = [mu EXCEPT !["A"].r = @ \cup {"t1"}]
    /\ walk' = [WalkIdle EXCEPT !.pc = IF id > 0 THEN "anchor" ELSE "return",
                                !.id = id,
                                !.ret = IF id > 0 THEN "none" ELSE "err"]
    /\ UNCHANGED <<th, torn>>

\* the anchor query: not found is an error, else the backward loop starts
\* with current := anchor.ID
HistoryAnchor ==
    /\ walk.pc = "anchor"
    /\ walk' = IF GetRow(rows, NsOf("A"), walk.id) = {}
               THEN [walk EXCEPT !.pc = "return", !.ret = "err"]
               ELSE [walk EXCEPT !.pc = "back", !.cur = walk.id]
    /\ UNCHANGED lockVars

\* one iteration of the backward loop: no predecessor ends it, and then the
\* forward loop starts at *anchor.SupersededBy when that is not nil
HistoryBack ==
    /\ walk.pc = "back"
    /\ LET P == PredsOf(rows, NsOf("A"), walk.cur) IN
       walk' = IF P # {}
               THEN [walk EXCEPT !.cur = FirstOf(P),
                                 !.seen = @ \cup {FirstOf(P)},
                                 !.again = @ \/ FirstOf(P) \in walk.seen]
               ELSE IF rows[walk.id].supBy = Nil
               THEN [walk EXCEPT !.pc = "return", !.ret = "ok"]
               ELSE [walk EXCEPT !.pc = "fwd", !.cur = rows[walk.id].supBy,
                                 !.seen = {}]
    /\ UNCHANGED lockVars

\* one iteration of the forward loop: a missing or an active successor ends it
HistoryForward ==
    /\ walk.pc = "fwd"
    /\ walk' = IF GetRow(rows, NsOf("A"), walk.cur) = {}
               THEN [walk EXCEPT !.pc = "return", !.ret = "ok"]
               ELSE IF rows[walk.cur].supBy = Nil
               THEN [walk EXCEPT !.pc = "return", !.ret = "ok",
                                 !.seen = @ \cup {walk.cur}]
               ELSE [walk EXCEPT !.cur = rows[walk.cur].supBy,
                                 !.seen = @ \cup {walk.cur},
                                 !.again = @ \/ walk.cur \in walk.seen]
    /\ UNCHANGED lockVars

\* the return of History: defer s.mu.RUnlock()
HistoryReturn ==
    /\ walk.pc = "return"
    /\ mu' = [mu EXCEPT !["A"] = Release(@, "t1")]
    /\ walk' = [walk EXCEPT !.pc = "idle"]
    /\ UNCHANGED <<th, torn>>

\* a step of the History call in progress
HistoryStep ==
    (HistoryAnchor \/ HistoryBack \/ HistoryForward \/ HistoryReturn)
    /\ UNCHANGED dbVars

----------------------------------------------------------------------------
(* memory_store calls of several callers on one store.                     *)

\* the clients of one MemoryServer, whose handlers run side by side
Clients == {"k1", "k2"}

\* A client between calls.  During a memory_store call: the step pc the
\* handler is about to take and the content and subject of its input.
ClientIdle == [pc |-> "idle", content |-> "", subject |-> ""]

\* HandleStore up to the dedup check: a blank content or subject is an
\* error result
HandleStoreCall(c, content, subject) ==
    /\ race[c].pc = "idle"
    /\ race' = [race EXCEPT ![c] =
                  IF Blank(content) \/ Blank(subject) THEN ClientIdle
                  ELSE [pc |-> "exists", content |-> content,
                        subject |-> subject]]
    /\ UNCHANGED dbVars

\* ms.store.Exists, under the shared lock of the store for its own length:
\* a duplicate is reported and nothing else is done
HandleStoreExists(c, s) ==
    /\ race[c].pc = "exists"
    /\ race' = [race EXCEPT ![c] =
                  IF Exists(rows, s, race[c].content, race[c].subject)
                  THEN ClientIdle
                  ELSE [@ EXCEPT !.pc = "embed"]]
    /\ UNCHANGED dbVars

\* memstore.Single, under no lock: a failure is an error result
HandleStoreEmbed(c, embedOk) ==
    /\ race[c].pc = "embed"
    /\ race' = [race EXCEPT ![c] =
                  IF embedOk THEN [@ EXCEPT !.pc = "insert"]
                  ELSE ClientIdle]
    /\ UNCHANGED dbVars

\* ms.store.Insert, under the exclusive lock for its own length
HandleStoreInsert(c, s) ==
    /\ race[c].pc = "insert"
    /\ Insert(s, [content |-> race[c].content, subject |-> race[c].subject,
                  category |-> "note", meta |-> {}, supBy |-> Nil,
                  emb |-> EmbedOf(race[c].content)])
    /\ race' = [race EXCEPT ![c] = ClientIdle]

----------------------------------------------------------------------------
(* NewSQLiteStore calls of several connections on one database file.       *)

\* the callers of NewSQLiteStore on the file
MaxConns == 2

Conns == 1..MaxConns

\* A caller between calls.  During a call: the step pc of migrate it is
\* about to take, the version it has read, the index k in MigrationSteps
\* of its next statement; afterwards what the call returned (ret): "ok",
\* "dup" for the error of an ALTER TABLE whose column exists, "err" for
\* an error with an outside cause.
ConnIdle == [pc |-> "idle", version |-> 0, k |-> 1, ret |-> "none"]

\* A new file: memstore_version has no row (version is the sequence of its
\* rows) and no statement of a migration is in effect.
FreshDB == [version |-> <<>>, has |-> {}]

ConnReturn(c, ret) ==
    mg' = [mg EXCEPT ![c].pc = "idle", ![c].ret = ret]

\* NewSQLiteStore(db, embedder, namespace) calls s.migrate()
OpenCall(c) ==
    /\ mg[c].pc = "idle"
    /\ mg' = [mg EXCEPT ![c] = [ConnIdle EXCEPT !.pc = "create"]]
    /\ UNCHANGED mdb

\* CREATE TABLE IF NOT EXISTS memstore_version
CreateVersionTable(c, ok) ==
    /\ mg[c].pc = "create"
    /\ IF ok THEN mg' = [mg EXCEPT ![c].pc = "read"]
       ELSE ConnReturn(c, "err")
    /\ UNCHANGED mdb

\* SELECT version FROM memstore_version, of which QueryRow keeps the first
\* row; no row is version 0, and at schemaVersion migrate returns nil
ReadVersion(c, ok) ==
    /\ mg[c].pc = "read"
    /\ LET v == IF mdb.version = <<>> THEN 0 ELSE Head(mdb.version) IN
       IF ~ok THEN ConnReturn(c, "err")
       ELSE IF AtCurrent(v)
       THEN mg' = [mg EXCEPT ![c].pc = "idle", ![c].version = v,
                             ![c].ret = "ok"]
       ELSE mg' = [mg EXCEPT ![c].pc = "migrate", ![c].version = v,
                             ![c].k = 1]
    /\ UNCHANGED mdb

\* the next statement of migrateV1 .. migrateV5: passed over when its
\* migration is not above the version read, else executed
MigrateStatement(c, ok) ==
    /\ mg[c].pc = "migrate"
    /\ LET st == MigrationSteps[mg[c].k]
           on == [mg EXCEPT ![c].k = @ + 1,
                            ![c].pc = IF mg[c].k = Len(MigrationSteps)
                                      THEN "write" ELSE "migrate"]
       IN  IF StepVersion(st) <= mg[c].version
           THEN mg' = on /\ UNCHANGED mdb
           ELSE IF ~ok
           THEN ConnReturn(c, "err") /\ UNCHANGED mdb
           ELSE IF ~Idempotent(st) /\ st \in mdb.has
           THEN ConnReturn(c, "dup") /\ UNCHANGED mdb
           ELSE mg' = on /\ mdb' = [mdb EXCEPT !.has = @ \cup {st}]

\* if version == 0 { INSERT INTO memstore_version } else { UPDATE ... }
WriteVersion(c, ok) ==
    /\ mg[c].pc = "write"
    /\ IF ~ok THEN ConnReturn(c, "err") /\ UNCHANGED mdb
       ELSE /\ ConnReturn(c, "ok")
            /\ mdb' = [mdb EXCEPT !.version =
                          IF mg[c].version = 0
                          THEN Append(@, schemaVersion)
                          ELSE [i \in DOMAIN @ |-> schemaVersion]]

\* The file as a release whose schemaVersion was v left it, opened once.
OlderRelease(v) ==
    /\ mdb = FreshDB
    /\ \A c \in Conns : mg[c].pc = "idle"
    /\ mdb' = [version |-> <<v>>, has |-> SchemaAt(v).has]
    /\ UNCHANGED mg

----------------------------------------------------------------------------
(* The chain specification: one database and two stores opened on it, one  *)
(* per namespace.  Facts are inserted through the alpha store; both stores *)
(* issue Supersede and Delete, so beta's calls meet only foreign rows.     *)

\* What lastOp keeps of a call: its name, whether it returned an error
\* (err) and whether it changed the table (chg); of a Supersede also the
\* target id a and whether the target was superseded before the call (was).
Op(op, a, was, err, chg) ==
    [op |-> op, a |-> a, was |-> was, err |-> err, chg |-> chg]

IsSuperseded(db, id) == id \in DOMAIN db /\ db[id].supBy # Nil

InitDB ==
    /\ rows = <<>>
    /\ nextID = 1
    /\ lastOp = Op("none", Nil, FALSE, FALSE, FALSE)
    /\ relinked = FALSE
    /\ imp = ImportIdle
    /\ pending = [s \in Namespaces |-> EmbedIdle]
    /\ th = [t \in Threads |-> ThreadIdle]
    /\ mu = [h \in StoreObjects |-> Unlocked]
    /\ crossed = FALSE
    /\ leaked = FALSE
    /\ refused = FALSE
    /\ torn = {}
    /\ ext = ExtractIdle
    /\ rt = RetryIdle
    /\ rh = RetryHistIdle
    /\ xh = ExtractHistIdle
    /\ links = {}
    /\ viol = {}
    /\ lastLink = NoLink
    /\ acct = NoAcct
    /\ meta = NoMeta
    /\ wrote = {}
    /\ mixed = FALSE
    /\ lastOpen = NoOpen
    /\ eh = EmbedHistIdle
    /\ xd = NoExport
    /\ origin = NoOrigin
    /\ call = NoCall
    /\ lastSearch = NoFound
    /\ tool = NoTool
    /\ codec = NoCodec
    /\ walk = WalkIdle
    /\ race = [c \in Clients |-> ClientIdle]
    /\ mg = [c \in Conns |-> ConnIdle]
    /\ mdb = FreshDB

\* The state after the stores of both namespaces have been opened on a new
\* database.
Init ==
    /\ InitDB
    /\ schema = SchemaAt(schemaVersion)
    /\ stores = [s \in Namespaces |-> StoreOf("m1")]

\* relinked is raised by any step that changes a superseded_by that was
\* not NULL, on a row that is still there afterwards.
Relinks(db, db2) ==
    \E f \in (DOMAIN db) \cap (DOMAIN db2) :
        db[f].supBy # Nil /\ db2[f].supBy # db[f].supBy

Observe(op, a, err) ==
    /\ lastOp' = Op(op, a, IsSuperseded(rows, a), err, rows' # rows)
    /\ relinked' = (relinked \/ Relinks(rows, rows'))
    /\ UNCHANGED <<nsHist, lockVars, extVars, embVars, openVars, resumeVars, xferVars, callHist, searchHist, toolHist, codecVars, walkVars, raceVars, migVars>>

Next ==
    \/ \E f \in ChainFacts :
          /\ nextID <= MaxFacts
          /\ Insert("alpha", f) /\ Observe("Insert", Nil, FALSE)
    \/ \E s \in Namespaces, o \in ArgIds, n \in ArgIds :
          /\ Supersede(s, o, n)
          /\ Observe("Supersede", o, SupersedeErr(rows, s, o))
    \/ \E i \in ArgIds :
          /\ Delete("alpha", i)
          /\ Observe("Delete", Nil, DeleteErr(rows, "alpha", i))
    \/ \E o \in 0..MaxFacts, n \in ArgIds :
          /\ HandleSupersede("alpha", o, n)
          /\ Observe("memory_supersede", Nil,
                     HandleSupersedeErr(rows, "alpha", o, n))
    \/ \E data \in ImportSets, skipDup \in BOOLEAN :
          /\ nextID + Len(data) - 1 <= MaxFacts
          /\ ImportInsertPass(data, <<"alpha", "beta">>, skipDup)
          /\ Observe("Import", Nil, FALSE)
    \/ ImportLinkPass /\ Observe("Import", Nil, FALSE)

Spec == Init /\ [][Next]_vars

----------------------------------------------------------------------------
(* The tool specification: facts come in without a SupersededBy, and links *)
(* are made only through the validated memory_supersede tool.              *)

PlainFacts == {f \in ChainFacts : f.supBy = Nil}

ToolIds == 0..(MaxToolFacts + 1)

NextTools ==
    \/ \E f \in PlainFacts :
          /\ nextID <= MaxToolFacts
          /\ Insert("alpha", f) /\ Observe("Insert", Nil, FALSE)
    \/ \E s \in Namespaces, i \in ToolIds :
          Delete(s, i) /\ Observe("Delete", Nil, DeleteErr(rows, s, i))
    \/ \E s \in Namespaces, o \in ToolIds, n \in ToolIds :
          /\ HandleSupersede(s, o, n)
          /\ Observe("memory_supersede", Nil,
                     HandleSupersedeErr(rows, s, o, n))
    \/ \E c \in {"c1", "c2"}, o \in ToolIds, ok \in BOOLEAN :
          /\ nextID <= MaxToolFacts
          /\ HandleStore("alpha", c, "s1", o, ok)
          /\ Observe("memory_store", Nil,
                     HandleStoreErr(rows, "alpha", c, "s1", ok))

SpecTools == Init /\ [][NextTools]_vars

----------------------------------------------------------------------------
(* The namespace specification: one database, store "alpha" and store      *)
(* "beta" opened on it, every write method called through either store     *)
(* with any id.  While an EmbedFacts call of a store is in progress it      *)
(* holds that store's mutex, so no other call of that store runs; the      *)
(* other store does.                                                       *)

NsFacts ==
    [ns : Namespaces, content : {"c1"}, subject : {"s1"}, meta : {{}},
     supBy : {Nil}, emb : {<<>>}]

NsIds == 1..(MaxNsFacts + 1)

Free(s) == pending[s].pc = "idle"

\* A write through store s touches another namespace when it changes or
\* removes a row of another namespace, or adds one.
Crosses(s, db, db2) ==
    \/ \E i \in DOMAIN db :
          db[i].ns # s /\ (i \notin DOMAIN db2 \/ db2[i] # db[i])
    \/ \E i \in (DOMAIN db2) \ (DOMAIN db) : db2[i].ns # s

\* The call through store s names a row of another namespace.
Foreign(s, id) == id \in DOMAIN rows /\ rows[id].ns # s

\* What the namespace specification records of a call through store s on
\* the row id: errs says whether the method reports RowsAffected = 0 as an
\* error, err is what it returned.
ObserveNs(s, id, errs, err) ==
    /\ crossed' = (crossed \/ Crosses(s, rows, rows'))
    /\ leaked' = (leaked \/ (Foreign(s, id)
                                /\ (rows' # rows \/ (errs /\ ~err))))
    /\ refused' = (refused \/ (Foreign(s, id) /\ errs /\ err))
    /\ UNCHANGED <<chainHist, lockVars, extVars, embVars, openVars, resumeVars, xferVars, callHist, searchHist, toolHist, codecVars, walkVars, raceVars, migVars>>

NextNs ==
    \/ \E s \in Namespaces, f \in NsFacts :
          /\ Free(s) /\ nextID <= MaxNsFacts
          /\ Insert(s, f) /\ ObserveNs(s, Nil, FALSE, FALSE)
    \/ \E s \in Namespaces, f \in NsFacts, g \in NsFacts :
          /\ Free(s) /\ nextID + 1 <= MaxNsFacts
          /\ InsertBatch(s, <<f, g>>) /\ ObserveNs(s, Nil, FALSE, FALSE)
    \/ \E s \in Namespaces, o \in NsIds :
          /\ Free(s)
          /\ Supersede(s, o, 1)
          /\ ObserveNs(s, o, TRUE, SupersedeErr(rows, s, o))
    \/ \E s \in Namespaces, i \in NsIds :
          /\ Free(s) /\ (i \in DOMAIN rows => rows[i].cc < MaxConfirms)
          /\ Confirm(s, i) /\ ObserveNs(s, i, TRUE, ConfirmErr(rows, s, i))
    \/ \E s \in Namespaces, i \in NsIds :
          /\ Free(s)
          /\ Delete(s, i) /\ ObserveNs(s, i, TRUE, DeleteErr(rows, s, i))
    \/ \E s \in Namespaces, i \in NsIds :
          /\ Free(s)
          /\ SetEmbedding(s, i, <<1, 0>>) /\ ObserveNs(s, i, FALSE, FALSE)
    \/ \E s \in Namespaces, b \in {1, 50} :
          EmbedFactsScan(s, b) /\ ObserveNs(s, Nil, FALSE, FALSE)
    \/ \E s \in Namespaces, ok \in BOOLEAN :
          EmbedFactsBatch(s, ok) /\ ObserveNs(s, Nil, FALSE, ~ok)

SpecNs == Init /\ [][NextNs]_vars

----------------------------------------------------------------------------
(* The lock specification: two goroutines call any method of the store     *)
(* object A, in any interleaving of their steps, while Insert and Delete   *)
(* calls go through the store object B of the same database.               *)

LockFacts ==
    [ns : {"alpha"}, content : {"c1"}, subject : {"s1"}, meta : {{}},
     supBy : {Nil}, emb : {<<>>}]

\* no goroutine is in a call that will insert
NoInsertPending ==
    \A t \in Threads : th[t].op \notin {"Insert", "InsertBatch"}

\* The bounds of the run, applied where a call begins: one insert at a
\* time up to MaxLockFacts ids, and Confirm up to MaxConfirms.
CallBound(op) ==
    /\ op \in {"Insert", "InsertBatch"} =>
          nextID <= MaxLockFacts /\ NoInsertPending
    /\ op = "Confirm" =>
          /\ \A i \in DOMAIN rows : rows[i].cc < MaxConfirms
          /\ \A t \in Threads : th[t].op # "Confirm"

NextLock ==
    \/ \E t \in Threads, op \in WriteMethods \cup ReadMethods :
          CallBound(op) /\ Call(t, op) /\ UNCHANGED <<chainHist, nsHist, extVars, embVars, openVars, resumeVars, xferVars, callHist, searchHist, toolHist, codecVars, walkVars, raceVars, migVars>>
    \/ \E t \in Threads : Acquire(t) /\ UNCHANGED <<chainHist, nsHist, extVars, embVars, openVars, resumeVars, xferVars, callHist, searchHist, toolHist, codecVars, walkVars, raceVars, migVars>>
    \/ \E t \in Threads, ok \in BOOLEAN, cancelled \in BOOLEAN :
          EmbedAttempt(t, ok, cancelled) /\ UNCHANGED <<chainHist, nsHist, extVars, embVars, openVars, resumeVars, xferVars, callHist, searchHist, toolHist, codecVars, walkVars, raceVars, migVars>>
    \/ \E t \in Threads : ExecRead(t) /\ UNCHANGED <<chainHist, nsHist, extVars, embVars, openVars, resumeVars, xferVars, callHist, searchHist, toolHist, codecVars, walkVars, raceVars, migVars>>
    \/ \E t \in Threads, f \in LockFacts :
          ExecWrite(t, 1, f) /\ UNCHANGED <<chainHist, nsHist, extVars, embVars, openVars, resumeVars, xferVars, callHist, searchHist, toolHist, codecVars, walkVars, raceVars, migVars>>
    \/ \E t \in Threads : FTSPass(t) /\ UNCHANGED <<chainHist, nsHist, extVars, embVars, openVars, resumeVars, xferVars, callHist, searchHist, toolHist, codecVars, walkVars, raceVars, migVars>>
    \/ \E t \in Threads : VecPass(t, 2) /\ UNCHANGED <<chainHist, nsHist, extVars, embVars, openVars, resumeVars, xferVars, callHist, searchHist, toolHist, codecVars, walkVars, raceVars, migVars>>
    \/ \E t \in Threads : Scan(t, 1) /\ UNCHANGED <<chainHist, nsHist, extVars, embVars, openVars, resumeVars, xferVars, callHist, searchHist, toolHist, codecVars, walkVars, raceVars, migVars>>
    \/ \E t \in Threads : Update(t) /\ UNCHANGED <<chainHist, nsHist, extVars, embVars, openVars, resumeVars, xferVars, callHist, searchHist, toolHist, codecVars, walkVars, raceVars, migVars>>
    \/ \E f \in LockFacts :
          /\ nextID <= MaxLockFacts /\ NoInsertPending
          /\ OtherStoreInsert(f) /\ UNCHANGED <<chainHist, nsHist, extVars, embVars, openVars, resumeVars, xferVars, callHist, searchHist, toolHist, codecVars, walkVars, raceVars, migVars>>
    \/ OtherStoreDelete(1) /\ UNCHANGED <<chainHist, nsHist, extVars, embVars, openVars, resumeVars, xferVars, callHist, searchHist, toolHist, codecVars, walkVars, raceVars, migVars>>

SpecLock == Init /\ [][NextLock]_vars

----------------------------------------------------------------------------
(* The extraction specification: one extractor on store "alpha" runs       *)
(* Extract calls step by step while other callers insert through either    *)
(* store and supersede and delete through "alpha".                         *)

\* the records a generator response parses to
ExtractRecords ==
    {[content |-> "c2", subject |-> ""],
     [content |-> "c2", subject |-> "s1"],
     [content |-> "c1", subject |-> "s1"],
     [content |-> "", subject |-> "s1"]}

\* the responses: one record, or two that paraphrase each other
ExtractResponses ==
    {<<r>> : r \in ExtractRecords}
        \cup {<<[content |-> "c1", subject |-> "s1"],
                [content |-> "c2", subject |-> "s1"]>>}

\* the facts other callers insert: c1 with and without its embedding, and
\* the unrelated c3 with metadata
ExtractOtherFacts ==
    {[content |-> "c1", subject |-> "s1", meta |-> {}, supBy |-> Nil,
      emb |-> EmbedOf("c1")],
     [content |-> "c1", subject |-> "s1", meta |-> {}, supBy |-> Nil,
      emb |-> <<>>],
     [content |-> "c3", subject |-> "s1",
      meta |-> {<<"project", "p1">>}, supBy |-> Nil,
      emb |-> EmbedOf("c3")]}

\* the inserts the Extract call in progress has yet to make
Outstanding ==
    Len(ext.queue) + (IF ext.pc = "insert" THEN 1 ELSE 0)

\* What a successful link old -> new of automatic supersession lacks of
\* what is expected of it, new being the fact newFact inserted through s.
Lacks(db, s, old, new, newFact) ==
    {c \in {"differs", "active", "subject", "namespace", "embedding",
            "metadata", "similarity"} :
        \/ c = "differs" /\ old = new
        \/ c = "active" /\ db[old].supBy # Nil
        \/ c = "subject" /\ db[old].subject # newFact.subject
        \/ c = "namespace" /\ db[old].ns # s
        \/ c = "embedding" /\ db[old].emb = <<>>
        \/ c = "metadata" /\ MetadataConflicts(newFact.meta, db[old].meta)
        \/ c = "similarity" /\ ~AtLeastThreshold(newFact.emb, db[old].emb)}

\* What xh becomes at a call of Extract.
CallHist(records, genOk, parseOk) ==
    [gen |-> ~genOk,
     failures |-> IF genOk /\ ~parseOk THEN 1 ELSE 0,
     given |-> IF genOk /\ parseOk THEN Len(records) ELSE 0,
     seen |-> 0]

\* What xh becomes at a step of the loop body in which failed tells
\* whether the store, the embedder or the search failed: the processing of
\* a record has ended when the extractor turns to the next or returns.
StepHist(failed) ==
    [xh EXCEPT !.failures = @ + (IF failed THEN 1 ELSE 0),
               !.seen = @ + (IF ext'.pc \in {"idle", "exists"}
                             THEN 1 ELSE 0)]

LinkHist ==
    [best |-> ext.best,
     gone |-> ext.best \notin DOMAIN rows,
     superseded |-> ext.best \in DOMAIN rows /\ rows[ext.best].supBy # Nil,
     changed |-> rows' # rows,
     dErrors |-> ext'.errors - ext.errors,
     dSuperseded |-> ext'.superseded - ext.superseded,
     dInserted |-> ext'.inserted - ext.inserted]

\* how the record in hand fares in the step of the loop body being taken
Fares ==
    CASE ext.pc = "exists" ->
           IF Head(ext.queue).content = "" THEN "blank"
           ELSE IF ext'.errors > ext.errors THEN "lost"
           ELSE IF ext'.duplicates > ext.duplicates THEN "duplicate"
           ELSE "going"
      [] ext.pc = "insert" ->
           IF ext'.errors > ext.errors THEN "lost" ELSE "going"
      [] OTHER -> IF ext'.pc = "supersede" THEN "going" ELSE "inserted"

\* What acct becomes at a step: a call of Extract (h.seen = 0 with the
\* extractor idle) starts it anew, a step of another caller tells nothing.
AcctHist(s, h) ==
    IF ext.pc = "idle"
    THEN IF h.seen = 0 THEN NoAcct ELSE [NoAcct EXCEPT !.blank = acct.blank,
                                                       !.lost = acct.lost]
    ELSE IF ext' = ext
    THEN [NoAcct EXCEPT !.blank = acct.blank, !.lost = acct.lost]
    ELSE [blank |-> acct.blank + (IF Fares = "blank" THEN 1 ELSE 0),
          lost |-> acct.lost + (IF Fares = "lost" THEN 1 ELSE 0),
          pc |-> ext.pc,
          last |-> Fares,
          was |-> /\ ext.pc = "exists"
                  /\ LET ef == Head(ext.queue) IN
                     \E i \in DOMAIN rows :
                         /\ rows[i].ns = s
                         /\ rows[i].content = ef.content
                         /\ rows[i].subject = IF ef.subject = ""
                                              THEN ext.subject
                                              ELSE ef.subject,
          same |-> rows' = rows,
          quiet |-> /\ ext'.inserted = ext.inserted
                    /\ ext'.duplicates = ext.duplicates
                    /\ ext'.superseded = ext.superseded
                    /\ ext'.errors = ext.errors]

\* Every step records: links and viol gain the link an ExtractSupersede
\* step makes, lastLink tells of such a step, and xh becomes h.
ObserveExt(linking, s, h) ==
    /\ IF linking /\ ~SupersedeErr(rows, s, ext.best)
       THEN /\ links' = links \cup {<<ext.best, ext.id>>}
            /\ viol' = viol \cup Lacks(rows, s, ext.best, ext.id, ext.fact)
       ELSE UNCHANGED <<links, viol>>
    /\ lastLink' = IF linking THEN LinkHist ELSE NoLink
    /\ acct' = AcctHist(s, h)
    /\ xh' = h
    /\ UNCHANGED <<lockVars, chainHist, nsHist, embVars, openVars, resumeVars, xferVars, callHist, searchHist, toolHist, codecVars, walkVars, raceVars, migVars>>

NextExtract ==
    \/ \E rs \in ExtractResponses, o \in {"", "s2"},
          genOk \in BOOLEAN, parseOk \in BOOLEAN :
          /\ nextID + Len(rs) <= MaxExtractFacts + 1
          /\ ExtractCall(rs, o, genOk, parseOk)
          /\ ObserveExt(FALSE, "alpha", CallHist(rs, genOk, parseOk))
    \/ \E existsOk \in BOOLEAN :
          /\ ExtractExists("alpha", existsOk)
          /\ ObserveExt(FALSE, "alpha",
                        StepHist(Head(ext.queue).content # "" /\ ~existsOk))
    \/ \E embedOk \in BOOLEAN, insertOk \in BOOLEAN :
          /\ ExtractInsert("alpha", embedOk, insertOk)
          /\ ObserveExt(FALSE, "alpha", StepHist(~(embedOk /\ insertOk)))
    \/ \E searchOk \in BOOLEAN :
          /\ ExtractSearch("alpha", searchOk)
          /\ ObserveExt(FALSE, "alpha", StepHist(~searchOk))
    \/ /\ ExtractSupersede("alpha")
       /\ ObserveExt(TRUE, "alpha",
                     StepHist(SupersedeErr(rows, "alpha", ext.best)))
    \/ \E s \in Namespaces, f \in ExtractOtherFacts :
          /\ nextID + Outstanding <= MaxExtractFacts
          /\ s # "alpha" => f.emb = EmbedOf("c1")
          /\ Insert(s, f) /\ UNCHANGED ext /\ ObserveExt(FALSE, s, xh)
    \/ \E o \in 1..MaxExtractFacts :
          /\ Supersede("alpha", o, 1) /\ UNCHANGED ext
          /\ ObserveExt(FALSE, "alpha", xh)
    \/ \E id \in 1..MaxExtractFacts :
          /\ Delete("alpha", id) /\ UNCHANGED ext
          /\ ObserveExt(FALSE, "alpha", xh)

SpecExtract == Init /\ [][NextExtract]_vars

\* C37: every record of an Extract call whose processing has ended is
\* accounted for once: it is one of result.Inserted, or counted in
\* result.Duplicates, or it ended with an error of Exists, of the embedder
\* or of Insert, or it was blank; when Extract returns this covers every
\* record.  A blank record leaves the table and the result as they were; a
\* record is counted as a duplicate exactly when Exists answered and the
\* table held its content and subject, and nothing is inserted for it nor
\* for a record that ended with such an error.
C37_Accounted ==
    /\ ext.inserted + ext.duplicates + acct.lost + acct.blank = xh.seen
    /\ acct.lost <= ext.errors
    /\ (ext.pc = "idle" /\ xh.seen > 0) => xh.seen = xh.given
    /\ acct.last = "blank" => acct.same /\ acct.quiet
    /\ acct.last = "duplicate" => acct.was /\ acct.same
    /\ acct.last = "lost" => acct.same
    /\ (acct.pc = "exists" /\ acct.last = "going") => ~acct.was /\ acct.same

\* C37 witness: a call has returned whose records ended as an inserted
\* fact and a duplicate
C37_Witness ==
    /\ ext.pc = "idle" /\ xh.given = 2 /\ xh.seen = 2
    /\ ext.inserted = 1 /\ ext.duplicates = 1

\* C37 witness: a blank record and a record lost to an error have ended
C37_WitnessBlank == acct.blank = 1 /\ acct.last = "blank"

C37_WitnessLost == acct.lost = 1 /\ acct.last = "lost" /\ ext.errors = 1

\* C35: when the candidate of automatic supersession was superseded or
\* deleted by another caller before the Supersede call, the call changes
\* no row, Extract records one error for the fact and counts no
\* supersession, and the new fact is appended to result.Inserted.
C35_StaleCandidate ==
    (lastLink.gone \/ lastLink.superseded) =>
        /\ ~lastLink.changed
        /\ lastLink.dErrors = 1
        /\ lastLink.dSuperseded = 0
        /\ lastLink.dInserted = 1

\* C35 witness: the candidate had been superseded meanwhile
C35_Witness ==
    lastLink.superseded /\ lastLink.dErrors = 1 /\ lastLink.dInserted = 1

\* C35 witness: the candidate had been deleted meanwhile
C35_WitnessDeleted ==
    lastLink.gone /\ lastLink.dErrors = 1 /\ lastLink.dInserted = 1

\* a candidate still active is linked: counted, no error
LinkedWhenActive ==
    (lastLink.best # Nil /\ ~lastLink.gone /\ ~lastLink.superseded) =>
        /\ lastLink.changed
        /\ lastLink.dErrors = 0
        /\ lastLink.dSuperseded = 1
        /\ lastLink.dInserted = 1

----------------------------------------------------------------------------
(* The embedding specification: invocations of embedWithRetry by its       *)
(* three callers, one after the other, with an embedder that fails or      *)
(* returns any number of vectors and a context cancelled at any moment.    *)

\* rh after an e.Embed call that succeeds with m vectors or fails
AttemptHist(ok, m) ==
    [calls |-> rh.calls + 1,
     fails |-> rh.fails + (IF ok THEN 0 ELSE 1),
     okAt |-> IF ok /\ rh.okAt = 0 THEN rh.calls + 1 ELSE rh.okAt,
     ret |-> IF ok /\ rh.okAt = 0 THEN m ELSE rh.ret,
     sawCancel |-> rh.sawCancel \/ (~ok /\ rt.cancelled),
     late |-> rh.late \/ rh.sawCancel,
     extra |-> rh.extra \/ rh.okAt # 0]

ObserveEmbed(h) ==
    /\ rh' = h
    /\ UNCHANGED <<dbVars, lockVars, chainHist, nsHist, extVars, openVars,
                   resumeVars, xferVars, callHist, searchHist, toolHist, codecVars, walkVars, raceVars, migVars>>

NextEmbed ==
    \/ \E c \in Callers, n \in 1..MaxTexts, cancelled \in BOOLEAN :
          RetryCall(c, n, cancelled) /\ ObserveEmbed(RetryHistIdle)
    \/ RetryCancel /\ ObserveEmbed(rh)
    \/ \E ok \in BOOLEAN, m \in 0..MaxTexts :
          RetryAttempt(ok, m) /\ ObserveEmbed(AttemptHist(ok, m))
    \/ CallerCheck /\ ObserveEmbed(rh)

SpecEmbed == Init /\ [][NextEmbed]_vars

----------------------------------------------------------------------------
(* The open specification: a database left by a release of any schema      *)
(* version is opened, under either namespace and with any embedder, by     *)
(* NewSQLiteStore calls whose migration statements may fail; facts are     *)
(* inserted and embedded through the stores that are open.                 *)

\* facts stored in a run of the open specification
MaxOpenFacts == 2

OpenFact ==
    [content |-> "c1", subject |-> "s1", meta |-> {}, supBy |-> Nil,
     emb |-> <<>>]

\* the statement of migrate that fails of an outside cause, if any
FailPoints == {"none", "v3a", "v4", "v5b", "version"}

InitOpen ==
    /\ InitDB
    /\ schema \in {SchemaAt(v) : v \in 0..schemaVersion}
    /\ stores = [s \in Namespaces |-> StoreClosed]

\* lastOpen after NewSQLiteStore(db, model, ns) with the failure failAt
OpenHist(model, failAt) ==
    [called |-> TRUE, model |-> model, rec |-> meta.model,
     from |-> schema.version,
     prior |-> {w[1] : w \in wrote},
     done |-> Migrate(schema, failAt).done,
     clean |-> failAt = "none",
     changed |-> schema' # schema \/ meta' # meta \/ rows' # rows,
     facts |-> rows' = rows,
     migrated |-> Migrate(schema, failAt).ok,
     ok |-> ~NewSQLiteStoreErr(schema, meta, model, failAt),
     retry |-> lastOpen.called /\ ~lastOpen.migrated]

\* Every step records: lastOpen becomes h; a step of the method by through
\* the store of ns that changes a row has written an embedding under the
\* model of that store, and EmbedFacts has written under another model
\* than the recorded one when the two differ after it.
ObserveOpen(h, by, ns) ==
    /\ lastOpen' = h
    /\ wrote' = IF by # "none" /\ rows' # rows
                THEN wrote \cup {<<stores[ns].model, by>>}
                ELSE wrote
    /\ mixed' = (mixed \/ (by = "EmbedFacts" /\ rows' # rows
                           /\ meta'.model # stores[ns].model))
    /\ UNCHANGED <<lockVars, chainHist, nsHist, extVars, embVars, resumeVars, xferVars, callHist, searchHist, toolHist, codecVars, walkVars, raceVars, migVars>>

NextOpen ==
    \/ \E ns \in Namespaces, model \in Embedders, failAt \in FailPoints :
          /\ pending[ns].pc = "idle"
          /\ NewSQLiteStore(ns, model, failAt)
          /\ ObserveOpen(OpenHist(model, failAt), "none", ns)
    \/ \E ns \in Namespaces :
          /\ nextID <= MaxOpenFacts
          /\ StoreInsert(ns, OpenFact, TRUE)
          /\ ObserveOpen(lastOpen, "Insert", ns)
    \/ \E ns \in Namespaces :
          /\ nextID <= MaxOpenFacts
          /\ StoreInsert(ns, OpenFact, FALSE)
          /\ ObserveOpen(lastOpen, "none", ns)
    \/ \E ns \in Namespaces, id \in 1..MaxOpenFacts :
          /\ StoreSetEmbedding(ns, id)
          /\ ObserveOpen(lastOpen, "SetEmbedding", ns)
    \/ \E ns \in Namespaces :
          /\ StoreEmbedFactsScan(ns, 50)
          /\ ObserveOpen(lastOpen, "none", ns)
    \/ \E ns \in Namespaces, embedOk \in BOOLEAN :
          /\ StoreEmbedFactsBatch(ns, embedOk)
          /\ ObserveOpen(lastOpen, "EmbedFacts", ns)

SpecOpen == InitOpen /\ [][NextOpen]_vars

----------------------------------------------------------------------------
(* The resumption specification: facts with and without embeddings are     *)
(* inserted and deleted through the stores of both namespaces, and both    *)
(* stores run EmbedFacts with batches of one or two facts and an embedder  *)
(* that may fail at any batch.  A store holds its lock throughout          *)
(* EmbedFacts, so its other methods wait for the return; the other store   *)
(* works between the batches.  The calls of the store of alpha are         *)
(* recorded.                                                               *)

\* facts stored in a run of the resumption specification
MaxResumeFacts == 3

ResumeFacts ==
    [content : {"c1", "c2"}, subject : {"s1"}, meta : {{}}, supBy : {Nil},
     emb : {<<>>, <<0, 1>>}]

\* the facts of namespace s without an embedding
LackingIn(db, s) == {i \in DOMAIN db : db[i].ns = s /\ db[i].emb = <<>>}

\* the rows whose embedding a step changed
Embedded(db, db2) ==
    {i \in (DOMAIN db) \cap (DOMAIN db2) : db2[i].emb # db[i].emb}

\* eh after the scan of an EmbedFacts call
ScanHist ==
    [EmbedHistIdle EXCEPT
        !.prev = eh.out,
        !.out = IF pending'["alpha"].pc = "idle" THEN "ok" ELSE "run",
        !.lacking = LackingIn(rows, "alpha"),
        !.left = LackingIn(rows', "alpha")]

\* eh after a turn of the batch loop
BatchHist(embedOk) ==
    LET batch == {BatchOf(pending["alpha"])[k].id :
                     k \in 1..Len(BatchOf(pending["alpha"]))}
        returns == pending'["alpha"].pc = "idle"
    IN
    [eh EXCEPT
        !.out = IF ~returns THEN "run" ELSE IF embedOk THEN "ok" ELSE "err",
        !.ret = IF returns
                THEN EmbedFactsReturn(pending["alpha"], embedOk)
                ELSE 0,
        !.done = @ \cup Embedded(rows, rows'),
        !.left = LackingIn(rows', "alpha"),
        !.touched = @ \/ (~embedOk /\ \E i \in batch :
                             i \notin DOMAIN rows' \/ rows'[i] # rows[i]),
        !.lost = @ \/ \E i \in eh.done :
                         i \notin DOMAIN rows' \/ rows'[i].emb = <<>>,
        !.clobber = @ \/ \E i \in Embedded(rows, rows') :
                            rows[i].emb # <<>>]

ObserveResume(h) ==
    /\ eh' = h
    /\ UNCHANGED <<lockVars, chainHist, nsHist, extVars, embVars, openVars,
                   xferVars, callHist, searchHist, toolHist, codecVars, walkVars, raceVars, migVars>>

NextResume ==
    \/ \E s \in Namespaces, f \in ResumeFacts :
          /\ Free(s) /\ nextID <= MaxResumeFacts
          /\ Insert(s, f) /\ ObserveResume(eh)
    \/ \E s \in Namespaces, i \in 1..MaxResumeFacts :
          /\ Free(s) /\ i \in DOMAIN rows
          /\ Delete(s, i) /\ ObserveResume(eh)
    \/ \E b \in {1, 2} :
          EmbedFactsScan("alpha", b) /\ ObserveResume(ScanHist)
    \/ \E embedOk \in BOOLEAN :
          /\ EmbedFactsBatch("alpha", embedOk)
          /\ ObserveResume(BatchHist(embedOk))
    \/ EmbedFactsScan("beta", 1) /\ ObserveResume(eh)
    \/ \E embedOk \in BOOLEAN :
          EmbedFactsBatch("beta", embedOk) /\ ObserveResume(eh)

SpecResume == Init /\ [][NextResume]_vars

----------------------------------------------------------------------------
(* The transfer specification: a database is filled through the stores of  *)
(* both namespaces, exported, and the export imported with the default     *)
(* options into a new database.                                            *)

\* facts stored in the database that is exported
MaxTransferFacts == 2

\* Fact values of the database exported: with and without category,
\* metadata and CreatedAt, and with a SupersededBy set by the caller.
TransferFacts ==
    [content : {"c1"}, subject : {"s1"}, category : {""}, meta : {{}},
     createdAt : {Nil}, supBy : {Nil, 1, 2}, emb : {<<>>}]
    \cup {[content |-> "c2", subject |-> "s2", category |-> "preference",
           meta |-> {<<"source", "test">>}, createdAt |-> Created,
           supBy |-> Nil, emb |-> <<1, 0>>]}

\* Every step keeps origin, but Export sets its table and the end of pass 1
\* its idMap.
ObserveTransfer(o) ==
    /\ origin' = o
    /\ UNCHANGED <<lockVars, chainHist, nsHist, extVars, embVars, openVars,
                   resumeVars, callHist, searchHist, toolHist, codecVars, walkVars, raceVars, migVars>>

NextTransfer ==
    \/ \E s \in Namespaces, f \in TransferFacts :
          /\ xd.pc = "build" /\ nextID <= MaxTransferFacts
          /\ Insert(s, f) /\ UNCHANGED xd /\ ObserveTransfer(origin)
    \/ \E s \in Namespaces, o \in 1..MaxTransferFacts,
          n \in 1..MaxTransferFacts :
          /\ xd.pc = "build"
          /\ Supersede(s, o, n) /\ UNCHANGED xd /\ ObserveTransfer(origin)
    \/ \E s \in Namespaces, i \in 1..MaxTransferFacts :
          /\ xd.pc = "build" /\ i \in DOMAIN rows
          /\ Delete(s, i) /\ UNCHANGED xd /\ ObserveTransfer(origin)
    \/ ExportCall /\ ObserveTransfer([origin EXCEPT !.db = rows])
    \/ OpenDestination /\ ObserveTransfer(origin)
    \/ \E nsOrder \in {<<"alpha", "beta">>, <<"beta", "alpha">>} :
          /\ xd.pc = "fresh"
          /\ ImportInsertPass(xd.data, nsOrder, FALSE)
          /\ ImportBegun
          /\ ObserveTransfer([origin EXCEPT !.idMap = imp'.idMap])
    \/ /\ xd.pc = "linking"
       /\ ImportLinkPass /\ ImportEnded /\ ObserveTransfer(origin)

SpecTransfer == Init /\ [][NextTransfer]_vars

----------------------------------------------------------------------------
(* The import specification: export files are imported, with and without   *)
(* SkipDuplicates, into a database that holds facts already, while the     *)
(* stores of both namespaces insert, supersede and delete, also between    *)
(* the two passes of an Import.                                            *)

\* facts stored in a run of the import specification
MaxImportFacts == 4

\* The ids of the export files are not ids the database issues in a run.
ImportFiles ==
    {<<ExportedFact(7, "alpha", "c1", 8, Now),
       ExportedFact(8, "beta", "c2", 9, at),
       ExportedFact(9, "alpha", "c3", Nil, Nil)>> : at \in {Nil, Now}}
    \cup {<<ExportedFact(7, "beta", "c1", 9, Now)>>}

\* facts the database holds besides: one an export file holds too
ImportOtherFacts ==
    [content : {"c1"}, subject : {"s1"}, meta : {{}}, supBy : {Nil},
     emb : {<<>>}]

\* the rows a step changed or added, each with its superseded_by afterwards
LinksMade(db, db2) ==
    {<<i, db2[i].supBy>> : i \in {j \in DOMAIN db2 :
                                     j \notin DOMAIN db \/ db2[j] # db[j]}}

ObserveImport(x, o) ==
    /\ xd' = x
    /\ origin' = o
    /\ UNCHANGED <<lockVars, chainHist, nsHist, extVars, embVars, openVars,
                   resumeVars, callHist, searchHist, toolHist, codecVars, walkVars, raceVars, migVars>>

NextImport ==
    \/ \E s \in Namespaces, f \in ImportOtherFacts :
          /\ nextID <= MaxImportFacts
          /\ Insert(s, f) /\ ObserveImport(xd, origin)
    \/ \E s \in Namespaces, o \in 1..MaxImportFacts :
          /\ o \in DOMAIN rows /\ imp.pc = "link"
          /\ Supersede(s, o, 1) /\ ObserveImport(xd, origin)
    \/ \E s \in Namespaces, i \in 1..MaxImportFacts :
          /\ i \in DOMAIN rows /\ imp.pc = "link"
          /\ Delete(s, i) /\ ObserveImport(xd, origin)
    \/ \E data \in ImportFiles, skipDup \in BOOLEAN,
          nsOrder \in {<<"alpha", "beta">>, <<"beta", "alpha">>} :
          /\ nextID + Len(data) - 1 <= MaxImportFacts
          /\ ImportInsertPass(data, nsOrder, skipDup)
          /\ ObserveImport([pc |-> "linking", data |-> data],
                           [db |-> rows, idMap |-> imp'.idMap,
                            fresh |-> (DOMAIN rows') \ (DOMAIN rows),
                            made |-> {}])
    \/ /\ ImportLinkPass
       /\ ObserveImport([xd EXCEPT !.pc = "done"],
                        [origin EXCEPT !.made = LinksMade(rows, rows')])

SpecImport == Init /\ [][NextImport]_vars

----------------------------------------------------------------------------
(* The call specification: the methods that write memstore_facts are       *)
(* called, InsertBatch with any of its statements failing, and each call   *)
(* is recorded with the table it found.  Facts come in through the store   *)
(* of alpha; the store of beta supersedes, confirms and deletes, meeting   *)
(* foreign rows only.                                                      *)

\* facts stored in a run of the call specification
MaxCallFacts == 2

\* Confirm calls on one fact in a run of the call specification
MaxCallConfirms == 1

CallFact(content) ==
    [content |-> content, subject |-> "s1", meta |-> {}, supBy |-> Nil,
     emb |-> <<>>]

CallFacts == {CallFact("c1")}

CallBatches ==
    {<<>>, <<CallFact("c1")>>, <<CallFact("c1"), CallFact("c2")>>,
     <<CallFact("c2"), CallFact("c2"), CallFact("c1")>>}

CallOf(op, s, id, facts, err, ids) ==
    [op |-> op, s |-> s, id |-> id, facts |-> facts, err |-> err,
     ids |-> ids, before |-> rows]

ObserveCall(c) ==
    /\ call' = c
    /\ UNCHANGED <<lockVars, chainHist, nsHist, extVars, embVars, openVars,
                   resumeVars, xferVars, searchHist, toolHist, codecVars, walkVars, raceVars, migVars>>

NextCalls ==
    \/ \E s \in {"alpha"}, f \in CallFacts :
          /\ Free(s) /\ nextID <= MaxCallFacts
          /\ Insert(s, f)
          /\ ObserveCall(CallOf("Insert", s, Nil, <<f>>, FALSE, <<nextID>>))
    \/ \E s \in {"alpha"}, facts \in CallBatches,
          failAt \in 0..4 :
          /\ Free(s) /\ nextID + Len(facts) - 1 <= MaxCallFacts
          /\ failAt <= Len(facts) + 1
          /\ InsertBatchTx(s, facts, failAt)
          /\ LET r == InsertBatchResult(rows, s, facts, nextID, failAt)
             IN  ObserveCall(CallOf("InsertBatch", s, Nil, facts, r.err,
                                    r.ids))
    \/ \E s \in Namespaces, o \in 1..(MaxCallFacts + 1) :
          /\ Free(s)
          /\ Supersede(s, o, 1)
          /\ ObserveCall(CallOf("Supersede", s, o, <<>>,
                                SupersedeErr(rows, s, o), <<>>))
    \/ \E s \in Namespaces, i \in 1..(MaxCallFacts + 1) :
          /\ Free(s)
          /\ IdWhere(rows, s, i) # {} => rows[i].cc < MaxCallConfirms
          /\ Confirm(s, i)
          /\ ObserveCall(CallOf("Confirm", s, i, <<>>,
                                ConfirmErr(rows, s, i), <<>>))
    \/ \E s \in Namespaces, i \in 1..(MaxCallFacts + 1) :
          /\ Free(s)
          /\ Delete(s, i)
          /\ ObserveCall(CallOf("Delete", s, i, <<>>,
                                DeleteErr(rows, s, i), <<>>))
    \/ \E s \in {"alpha"} :
          /\ EmbedFactsScan(s, 50)
          /\ ObserveCall(CallOf("EmbedFacts", s, Nil, <<>>, FALSE, <<>>))
    \/ \E s \in {"alpha"}, embedOk \in BOOLEAN :
          /\ EmbedFactsBatch(s, embedOk)
          /\ ObserveCall(CallOf("EmbedFacts", s, Nil, <<>>, ~embedOk, <<>>))

SpecCalls == Init /\ [][NextCalls]_vars

----------------------------------------------------------------------------
(* Supersession links. *)

\* C1: supersession is one-shot: a superseded_by that is set keeps its
\* value in every later state in which the fact exists, and a Supersede of
\* a fact that is already superseded, through any store and towards any
\* id, returns an error and changes no row.
C1_OneShot ==
    /\ ~relinked
    /\ (lastOp.op = "Supersede" /\ lastOp.was) => (lastOp.err /\ ~lastOp.chg)

\* C1 witness: a Supersede has just failed on a fact that exists and was
\* superseded by an earlier Supersede.
C1_Witness ==
    /\ lastOp.op = "Supersede" /\ lastOp.err
    /\ lastOp.a \in DOMAIN rows
    /\ rows[lastOp.a].supBy # Nil /\ rows[lastOp.a].supAt # Nil

\* ids reached from the set S by following superseded_by up to k times
RECURSIVE Follow(_, _, _)
Follow(db, S, k) ==
    IF k = 0 THEN S
    ELSE Follow(db,
                S \cup ({db[i].supBy : i \in S \cap DOMAIN db} \ {Nil}),
                k - 1)

\* ids reached from f in one or more steps
After(db, f) == Follow(db, {db[f].supBy} \ {Nil}, Cardinality(DOMAIN db))

\* C2: supersession chains are acyclic in every reachable state: following
\* superseded_by from a fact never returns to it.
C2_Acyclic == \A f \in DOMAIN rows : f \notin After(rows, f)

\* The facts of m's chain: m, the facts m leads to and the facts leading to
\* them or to m, among the rows of m's namespace.
ChainOf(db, m) ==
    LET own == {i \in DOMAIN db : db[i].ns = db[m].ns}
        fwd == {m} \cup (After(db, m) \cap own)
    IN  fwd \cup {i \in own : After(db, i) \cap fwd # {}}

\* C5: for every fact m, History(m.id) returns every fact of m's chain
\* exactly once, oldest first, with Position the index and ChainLength the
\* length of the list, and exactly one entry has a nil SupersededBy.
C5_HistoryWholeChain ==
    \A m \in DOMAIN rows :
        LET h == HistoryByID(rows, rows[m].ns, m)
            e == h.entries
        IN  /\ ~h.err /\ h.done
            /\ {e[i].id : i \in 1..Len(e)} = ChainOf(rows, m)
            /\ \A i, j \in 1..Len(e) : e[i].id = e[j].id => i = j
            /\ \A i \in 1..(Len(e) - 1) : e[i].supBy = e[i + 1].id
            /\ \A i \in 1..Len(e) :
                  e[i].Position = i - 1 /\ e[i].ChainLength = Len(e)
            /\ Cardinality({i \in 1..Len(e) : e[i].supBy = Nil}) = 1

\* A table without the defects of C2 and C33: no cycle, and every link
\* leads to a row of the same namespace.
WellLinked(db) ==
    \A f \in DOMAIN db :
        /\ f \notin After(db, f)
        /\ db[f].supBy # Nil =>
              db[f].supBy \in DOMAIN db /\ db[db[f].supBy].ns = db[f].ns

\* C5 on well-linked tables only: History returns the whole chain whenever
\* the table has no cycle and no dangling link.
C5_WholeChainWhenWellLinked == WellLinked(rows) => C5_HistoryWholeChain

\* C6: in every reachable state a fact has superseded_at set if and only
\* if it has superseded_by set.
C6_SupersededAtIffBy ==
    \A f \in DOMAIN rows : (rows[f].supAt # Nil) <=> (rows[f].supBy # Nil)

----------------------------------------------------------------------------
(* Namespaces. *)

\* C3: no write through a store changes, removes or adds a row of another
\* namespace (so inserted rows carry the store's namespace whatever the
\* input says); Delete, Supersede and Confirm of a row of another namespace
\* return an error and change nothing, and SetEmbedding of one changes
\* nothing.
C3_NamespaceFrame == ~crossed /\ ~leaked

\* C3 witness: a Delete, Supersede or Confirm through one store has been
\* refused on a row of the other namespace, and an EmbedFacts call of one
\* store is between its scan and its update while the other namespace
\* holds a fact without an embedding.
C3_Witness ==
    /\ refused
    /\ \E s \in Namespaces, j \in DOMAIN rows :
          /\ pending[s].pc = "embed"
          /\ rows[j].ns # s /\ rows[j].emb = <<>>

\* Options of the reads checked: every Namespaces list, and no other
\* filter than the subject, since the other filters only remove facts.
ListOpts ==
    [Namespaces : SUBSET Namespaces, Subject : {"s1"},
     OnlyActive : {FALSE}, Limit : {0, 1}]

SearchOpts ==
    [Namespaces : SUBSET Namespaces, Subject : {""}, OnlyActive : {FALSE}]

Range(sq) == {sq[k] : k \in 1..Len(sq)}

\* the table without the rows of other namespaces than s
OwnRows(db, s) == [i \in {j \in DOMAIN db : db[j].ns = s} |-> db[i]]

\* C4: every read through a store returns only facts of the store's
\* namespace (and Exists and ActiveCount do not depend on other rows); List,
\* Search and SearchBatch with a non-empty Namespaces return only facts of
\* the listed namespaces.
C4_ReadsOwnNamespace ==
    \A s \in Namespaces :
        LET own == DOMAIN OwnRows(rows, s)
            Seen(o) == IF o.Namespaces = {} THEN own
                       ELSE {i \in DOMAIN rows : rows[i].ns \in o.Namespaces}
        IN  /\ \A i \in NsIds : GetRow(rows, s, i) \subseteq own
            /\ Range(BySubject(rows, s, "s1", FALSE)) \subseteq own
            /\ Exists(rows, s, "c1", "s1")
                  = Exists(OwnRows(rows, s), s, "c1", "s1")
            /\ ActiveCount(rows, s) = ActiveCount(OwnRows(rows, s), s)
            /\ \A i \in NsIds :
                  LET h == HistoryByID(rows, s, i) IN
                  {h.entries[k].id : k \in 1..Len(h.entries)} \subseteq own
            /\ HistoryBySubject(rows, s, "s1") \subseteq own
            /\ \A lim \in {0, 1} :
                  Range(NeedingEmbedding(rows, s, lim)) \subseteq own
            /\ \A o \in ListOpts : Range(List(rows, s, o)) \subseteq Seen(o)
            /\ \A o \in SearchOpts :
                  /\ Search(rows, s, "c1", o) \subseteq Seen(o)
                  /\ \A k \in 1..2 :
                        SearchBatch(rows, s, <<"w1", "c1">>, o)[k]
                            \subseteq Seen(o)

\* C4 witness: both namespaces hold an embedded fact matching a query, a
\* search through one store returns its own and not the other, and a search
\* naming only the other namespace returns the other and not its own.
C4_Witness ==
    \E i \in DOMAIN rows, j \in DOMAIN rows :
        LET o == [Namespaces |-> {}, Subject |-> "", OnlyActive |-> FALSE]
        IN  /\ rows[i].ns = "alpha" /\ rows[j].ns = "beta"
            /\ rows[i].emb # <<>> /\ rows[j].emb # <<>>
            /\ Search(rows, "alpha", "c1", o) = {i}
            /\ Search(rows, "alpha", "c1",
                      [o EXCEPT !.Namespaces = {"beta"}]) = {j}

----------------------------------------------------------------------------
(* Locking. *)

\* C7: a Search is computed from one state of the fact table: no insert,
\* supersede, delete or embedding write, through this store or any other
\* store of the database, takes effect between the lexical and the vector
\* pass of a Search.
C7_SingleSnapshot == torn = {}

\* The part of C7 that the store's own mutex gives: no write issued through
\* the store a Search runs on takes effect between its two passes.
SameStoreSnapshot == "same" \notin torn

\* t is between the first statement of its method and its return
InDB(t) ==
    \/ th[t].pc \in {"db", "fts", "vec", "scan", "update"}
    \/ th[t].op = "EmbedFacts" /\ th[t].pc = "embed"

\* C8: on one store a write method is in its statements only while holding
\* the exclusive lock and a read method only while holding the shared lock,
\* and while a write method is in its statements no other method of the
\* store is.
C8_LockDiscipline ==
    \A t \in Threads :
        InDB(t) =>
            /\ th[t].op \in WriteMethods => mu["A"].w = t
            /\ th[t].op \in ReadMethods => t \in mu["A"].r
            /\ th[t].op \in WriteMethods =>
                  \A u \in Threads \ {t} : ~InDB(u)

\* C8 witness: a Supersede holds the lock before its UPDATE while a read
\* waits for the lock.
C8_Witness ==
    \E t \in Threads, u \in Threads :
        /\ th[t].op = "Supersede" /\ th[t].pc = "db"
        /\ th[u].op = "Get" /\ th[u].pc = "lock"

\* C9: Search and SearchBatch hold no lock while they embed and embed no
\* more once they hold it; EmbedFacts holds the exclusive lock at its scan,
\* at every embedder call and retry and at its updates, and no other method
\* of the store is in its statements meanwhile.
C9_EmbedOutsideLock ==
    \A t \in Threads :
        /\ (th[t].op \in {"Search", "SearchBatch"} /\ th[t].pc = "embed")
              => ~Holds(mu["A"], t)
        /\ (th[t].op \in {"Search", "SearchBatch"} /\ Holds(mu["A"], t))
              => th[t].pc \in {"fts", "vec"}
        /\ (th[t].op = "EmbedFacts"
            /\ th[t].pc \in {"scan", "embed", "update"})
              => /\ mu["A"].w = t
                 /\ \A u \in Threads \ {t} : ~InDB(u)

\* C9 witness: EmbedFacts is retrying an embedder call while a Search that
\* has finished its embedding waits for the lock.
C9_Witness ==
    \E t \in Threads, u \in Threads :
        /\ th[t].op = "EmbedFacts" /\ th[t].pc = "embed" /\ th[t].tries > 0
        /\ th[u].op = "Search" /\ th[u].pc = "lock"

----------------------------------------------------------------------------
(* Automatic supersession. *)

\* C10: when Extract inserts a fact n, automatic supersession links at most
\* one existing fact c to n, and only a c that differs from n, is active,
\* has n's subject and the store's namespace, has an embedding, has no
\* metadata conflict with n and has cosine similarity to n of at least
\* 0.85; the Superseded of a result never exceeds the length of its
\* Inserted.
C10_AutoSupersession ==
    /\ viol = {}
    /\ \A l \in links, m \in links : l[2] = m[2] => l[1] = m[1]
    /\ ext.pc = "idle" => ext.superseded <= ext.inserted

\* What holds of C10: all of it but the subject of the linked fact.
AutoSupersessionButSubject ==
    /\ viol \subseteq {"subject"}
    /\ \A l \in links, m \in links : l[2] = m[2] => l[1] = m[1]
    /\ ext.pc = "idle" => ext.superseded <= ext.inserted

\* A fact of the same subject has been linked by automatic supersession,
\* and so has a fact of another subject.
AutoSupersessionSeen ==
    /\ viol = {"subject"}
    /\ \E l \in links :
          /\ l[1] \in DOMAIN rows /\ l[2] \in DOMAIN rows
          /\ rows[l[1]].subject = rows[l[2]].subject
          /\ rows[l[1]].supBy = l[2]

----------------------------------------------------------------------------
(* Errors of the extraction pipeline. *)

\* C11: Extract returns a top-level error if and only if the generator call
\* failed; otherwise a response that does not parse and every failure of a
\* record (exists check, embedding, insert, supersession) is one entry of
\* result.Errors, and every record of the response is processed.
C11_ErrorsDowngraded ==
    /\ ext.err <=> xh.gen
    /\ ~ext.err => ext.errors = xh.failures
    /\ (ext.pc = "idle" /\ ~ext.err) => xh.seen = xh.given

\* C11 witness: a call has returned a result, having met two failures and
\* inserted a fact after the first of them.
C11_Witness ==
    /\ ext.pc = "idle" /\ ~ext.err
    /\ xh.given = 2 /\ xh.seen = 2
    /\ ext.errors = 1 /\ ext.inserted = 1 /\ ext.superseded = 0
    /\ \E i \in DOMAIN rows : rows[i].content = "c2" /\ rows[i].supBy = Nil

----------------------------------------------------------------------------
(* Embedder calls. *)

\* C12: an invocation of embedWithRetry calls the embedder at most three
\* times, returns the result of the first call that succeeds and calls no
\* more after it, calls no more after a failed attempt that finds the
\* context cancelled, and otherwise returns an error only after three
\* failed attempts.
C12_BoundedRetry ==
    /\ rh.calls <= 3
    /\ ~rh.extra /\ ~rh.late
    /\ rt.out = "ok" => (rh.okAt = rh.calls /\ rt.got = rh.ret)
    /\ rt.out = "err" => (rh.okAt = 0 /\ (rh.fails = 3 \/ rh.sawCancel))

\* C12 witness: an invocation has returned an error after two calls, the
\* second of which found the context cancelled.
C12_Witness ==
    /\ rt.out = "err" /\ rh.calls = 2 /\ rh.fails = 2
    /\ rh.sawCancel /\ rt.cancelled

----------------------------------------------------------------------------
(* Model binding. *)

\* C13: after the first embedding is written through a store opened with
\* an embedder of model M, by Insert, SetEmbedding or EmbedFacts, the model
\* and the dimension are recorded, so every later open with an embedder of
\* another model fails.
C13_RecordedOnFirstWrite ==
    /\ wrote # {} => (meta.model # "" /\ meta.dim > 0)
    /\ (lastOpen.called /\ lastOpen.ok /\ lastOpen.model # "nil")
          => lastOpen.prior \subseteq {lastOpen.model}

\* What holds of C13: the embeddings EmbedFacts writes are preceded by the
\* record of a model and a dimension.
RecordedOnEmbedFacts ==
    (\E w \in wrote : w[2] = "EmbedFacts") => (meta.model # "" /\ meta.dim > 0)

\* C14: NewSQLiteStore with an embedder returns no store whenever a
\* recorded embedding_model differs from the embedder's model; no recorded
\* model, an equal model and a nil embedder never make it fail.
C14_ModelMismatchRefused ==
    (lastOpen.called /\ lastOpen.migrated) =>
        (lastOpen.ok <=> ~(/\ lastOpen.model # "nil"
                           /\ lastOpen.rec # ""
                           /\ lastOpen.rec # lastOpen.model))

\* C14 witness: an open with the embedder m2 has been refused on a database
\* that records m1, whose stores stay as they were.
C14_Witness ==
    /\ lastOpen.called /\ lastOpen.migrated /\ ~lastOpen.ok
    /\ lastOpen.model = "m2" /\ lastOpen.rec = "m1"
    /\ \E ns \in Namespaces : stores[ns] = StoreOf("m1")

\* C15: EmbedFacts never writes embeddings through a store whose embedder's
\* model differs from the recorded embedding_model.
C15_OneModel == ~mixed

----------------------------------------------------------------------------
(* Resumption of EmbedFacts. *)

\* C16: when EmbedFacts fails at some batch, the embeddings of the earlier
\* batches are committed, no fact of the failed batch is changed and the
\* count returned is the number of facts embedded; an EmbedFacts that
\* succeeds embeds exactly the facts that lacked an embedding, leaves none
\* in the store's namespace without one, and no call changes an embedding
\* that existed.
C16_ResumeSafe ==
    /\ eh.out = "err" =>
          /\ ~eh.lost /\ ~eh.touched
          /\ eh.ret = Cardinality(eh.done)
          /\ eh.done \subseteq eh.lacking
    /\ eh.out = "ok" =>
          /\ eh.done = eh.lacking
          /\ eh.left = {}
          /\ eh.ret = Cardinality(eh.done)
    /\ ~eh.clobber

\* C16 witness: an EmbedFacts call that embedded one fact and failed at its
\* second batch has been followed by one that succeeded and embedded the
\* two facts left, beside a fact whose embedding was inserted with it.
C16_Witness ==
    /\ eh.prev = "err" /\ eh.out = "ok"
    /\ eh.ret = 2
    /\ \E i \in DOMAIN rows : rows[i].ns = "alpha" /\ i \notin eh.done
    /\ \A i \in DOMAIN rows : rows[i].emb # <<>>

----------------------------------------------------------------------------
(* The embedder's same-length contract. *)

\* C17: EmbedFacts and SearchBatch fail, using none of the vectors, when
\* the embedder returns a number of vectors that differs from the number
\* of texts.
C17_CountMismatchFails ==
    (/\ rt.pc = "done" /\ rt.caller \in {"EmbedFacts", "SearchBatch"}
     /\ rt.out = "ok" /\ rt.got # rt.n)
        => (rt.res = "err" /\ rt.used = 0)

\* What holds of C17: EmbedFacts fails on a count mismatch and writes
\* nothing of the batch.
EmbedFactsCountMismatchFails ==
    (/\ rt.pc = "done" /\ rt.caller = "EmbedFacts"
     /\ rt.out = "ok" /\ rt.got # rt.n)
        => (rt.res = "err" /\ rt.used = 0)

----------------------------------------------------------------------------
(* Migrations. *)

\* C18: after a NewSQLiteStore whose migration failed, the stored version
\* is the number of the last migration whose changes are in the schema and
\* no fact has changed; the next NewSQLiteStore, when no statement fails of
\* an outside cause, applies exactly the migrations above the stored
\* version and its migration succeeds.
C18_FailedMigrationResumes ==
    /\ (lastOpen.called /\ ~lastOpen.migrated) =>
          /\ schema.version = LastPresent(schema.has)
          /\ lastOpen.facts
    /\ (lastOpen.called /\ lastOpen.retry /\ lastOpen.clean) =>
          /\ lastOpen.migrated
          /\ lastOpen.done = StepsAbove(lastOpen.from)

\* What holds of C18: a migration that succeeds has applied exactly the
\* statements of the migrations above the stored version and leaves the
\* current version stored; no NewSQLiteStore changes a fact.
MigratesAboveStored ==
    (lastOpen.called /\ lastOpen.migrated) =>
        /\ lastOpen.done = StepsAbove(lastOpen.from)
        /\ schema = SchemaAt(schemaVersion)
        /\ lastOpen.facts

----------------------------------------------------------------------------
(* The export and import round trip. *)

\* the columns of a row that a transfer is to preserve
TupleOf(r) ==
    <<r.ns, r.content, r.subject, r.category, r.meta, r.createdAt>>

TupleSet(db) == {TupleOf(db[i]) : i \in DOMAIN db}

\* the exported pairs <<f, g>>: f is superseded by g and both were exported
ExportedPairs ==
    {<<f, origin.db[f].supBy>> : f \in {i \in DOMAIN origin.db :
                                     origin.db[i].supBy \in DOMAIN origin.db}}

\* Every exported fact has a copy with its columns, and there is no other
\* row.
CopiesFaithful ==
    /\ DOMAIN origin.idMap = DOMAIN origin.db
    /\ DOMAIN rows = {origin.idMap[f] : f \in DOMAIN origin.db}
    /\ \A f \in DOMAIN origin.db :
          TupleOf(rows[origin.idMap[f]]) = TupleOf(origin.db[f])
    /\ TupleSet(rows) = TupleSet(origin.db)

----------------------------------------------------------------------------
(* The links an Import restores. *)

\* C21: every row pass 2 of an Import changes is the copy of an exported
\* fact with a link, both that fact and its successor were inserted by this
\* Import, the row is linked to the id given to the successor's copy, and
\* that id is none of the export file.
C21_LinksWithinRun ==
    xd.pc = "done" =>
        \A l \in origin.made :
            /\ l[1] \in origin.fresh /\ l[2] \in origin.fresh
            /\ l[2] \notin {xd.data[k].id : k \in 1..Len(xd.data)}
            /\ \E k \in 1..Len(xd.data) :
                  /\ xd.data[k].supBy # Nil
                  /\ xd.data[k].id \in DOMAIN origin.idMap
                  /\ xd.data[k].supBy \in DOMAIN origin.idMap
                  /\ l = <<origin.idMap[xd.data[k].id],
                           origin.idMap[xd.data[k].supBy]>>

\* C21 witness: an Import with SkipDuplicates has skipped the first fact of
\* a chain of three as a duplicate and restored the one link whose
\* endpoints it inserted.
C21_Witness ==
    /\ xd.pc = "done" /\ Len(xd.data) = 3
    /\ 7 \notin DOMAIN origin.idMap
    /\ origin.made = {<<origin.idMap[8], origin.idMap[9]>>}
    /\ \A i \in DOMAIN origin.db : i \in DOMAIN rows /\ rows[i] = origin.db[i]

----------------------------------------------------------------------------
(* InsertBatch. *)

\* C22: after an InsertBatch that returned an error the fact table is as it
\* was before the call; after one that returned nil every fact of the
\* batch is a new row of the store's namespace, the ID written to each
\* input is the id of its row, and no other row was added or changed.
C22_AllOrNothing ==
    call.op = "InsertBatch" =>
        /\ call.err => rows = call.before
        /\ ~call.err =>
              /\ Len(call.ids) = Len(call.facts)
              /\ \A k \in 1..Len(call.facts) :
                    /\ call.ids[k] \in (DOMAIN rows) \ (DOMAIN call.before)
                    /\ rows[call.ids[k]].ns = call.s
                    /\ rows[call.ids[k]].content = call.facts[k].content
                    /\ rows[call.ids[k]].subject = call.facts[k].subject
                    /\ \A j \in 1..Len(call.facts) :
                          call.ids[j] = call.ids[k] => j = k
              /\ DOMAIN rows =
                    (DOMAIN call.before)
                       \cup {call.ids[k] : k \in 1..Len(call.ids)}
              /\ \A i \in DOMAIN call.before : rows[i] = call.before[i]

\* C22 witness: an InsertBatch has failed at its Commit, after its
\* statement ran and an id was written to the input, in a store that held
\* a fact.
C22_Witness ==
    /\ call.op = "InsertBatch" /\ call.err
    /\ Len(call.facts) = 1 /\ Len(call.ids) = 1
    /\ call.before # <<>>

----------------------------------------------------------------------------
(* Confirm. *)

\* the row r with one more confirmation, whenever the last was
Confirmed(r, r2) ==
    /\ r2.cc = r.cc + 1
    /\ r2.lastConf # Nil
    /\ [r2 EXCEPT !.cc = r.cc, !.lastConf = r.lastConf] = r

\* C30: Confirm(id) on a fact of the store's namespace returns nil, adds
\* one to its confirmed_count, sets last_confirmed_at and changes nothing
\* else; on an id absent from the namespace it returns an error and
\* changes no row; and no call decreases the confirmed_count of a fact.
C30_ConfirmCounts ==
    /\ call.op = "Confirm" =>
          /\ DOMAIN rows = DOMAIN call.before
          /\ \A i \in DOMAIN rows :
                i # call.id => rows[i] = call.before[i]
          /\ IF call.id \in DOMAIN call.before
                /\ call.before[call.id].ns = call.s
             THEN ~call.err /\ Confirmed(call.before[call.id], rows[call.id])
             ELSE call.err /\ rows = call.before
    /\ \A i \in (DOMAIN rows) \cap (DOMAIN call.before) :
          rows[i].cc >= call.before[i].cc

\* C30 witness: the store of beta has been refused the confirmation of a
\* fact of alpha that alpha had confirmed.
C30_Witness ==
    /\ call.op = "Confirm" /\ call.s = "beta" /\ call.err
    /\ call.id \in DOMAIN rows
    /\ rows[call.id].cc = 1 /\ rows[call.id].lastConf # Nil

----------------------------------------------------------------------------
(* The search specification: facts of two categories, two units old, are  *)
(* inserted through store "alpha", or one batch of more new facts than a   *)
(* search returns by default; Search and SearchBatch are called with any   *)
(* of the options below and any answer of the embedder.                    *)

MaxSearchFacts == 2

SearchFacts ==
    {[content |-> c, subject |-> "s1", category |-> cat, meta |-> {},
      supBy |-> Nil, emb |-> EmbedOf(c), createdAt |-> Created] :
        c \in {"c1", "c2"}, cat \in {"turn", "note"}}

\* one more fact than defaultMaxResults, all alike
BulkFacts ==
    [k \in 1..(defaultMaxResults + 1) |->
        [content |-> "c1", subject |-> "s1", category |-> "note",
         meta |-> {}, supBy |-> Nil, emb |-> <<1, 0>>, createdAt |-> Nil]]

\* per-category half-lives: none, one for "turn", "turn" exempted
CategoryDecays == {<<>>, "turn" :> 1, "turn" :> 0}

RankOpts ==
    [MaxResults : {0, 1}, FTSWeight : {0}, VecWeight : {0},
     DecayHalfLife : {0, 1}, CategoryDecay : CategoryDecays,
     Namespaces : {{}}, Subject : {""}, Category : {""},
     OnlyActive : {FALSE}, MetadataFilters : {<<>>}]

\* queries: no word, a word of c1 and c2, the two words of c1
RankQueries == {<<" ">>, <<"w", "1">>, <<"w", "2", " ", "w", "1">>}

QueryEmbs == {<<>>, <<1, 0>>, <<3, 1>>}

\* a read returns: nothing of the database changes (the specifications
\* record one read of a table, the first after a write)
ReadReturns == UNCHANGED <<rows, nextID, imp, pending>>

ObserveSearch(f) ==
    /\ lastSearch' = f
    /\ UNCHANGED <<lockVars, chainHist, nsHist, extVars, embVars, openVars,
                   resumeVars, xferVars, callHist, toolHist, codecVars, walkVars, raceVars, migVars>>

NextSearch ==
    \/ \E f \in SearchFacts :
          /\ nextID <= MaxSearchFacts
          /\ Insert("alpha", f) /\ ObserveSearch(NoFound)
    \/ /\ nextID = 1
       /\ InsertBatch("alpha", BulkFacts) /\ ObserveSearch(NoFound)
    \/ \E q \in RankQueries, e \in QueryEmbs \ {<<3, 1>>}, o \in RankOpts,
          tie \in {"up", "down"} :
          /\ lastSearch = NoFound
          /\ ReadReturns
          /\ ObserveSearch(SearchCall(rows, "alpha", "m1", q, <<e>>, 0,
                                      FALSE, o, tie))
    \/ \E m \in {"nil", "m1"}, embs \in {<<>>, <<<<1, 0>>>>},
          fails \in {0, 1, embedMaxRetries + 1}, cancelled \in BOOLEAN :
          /\ m = "m1" => fails > 0 \/ embs = <<>>
          /\ lastSearch = NoFound
          /\ ReadReturns
          /\ ObserveSearch(SearchCall(rows, "alpha", m, <<"w", "1">>, embs,
                                      fails, cancelled,
                                      CHOOSE o \in RankOpts : TRUE, "up"))
    \/ \E qs \in {<<>>, <<<<"w", "1">>>>,
                   <<<<"w", "2", " ", "w", "1">>, <<"w", "1">>>>},
          embs \in {<<>>, <<<<1, 0>>>>, <<<<>>, <<3, 1>>>>},
          m \in {"nil", "m1"}, fails \in {0, 1, embedMaxRetries + 1},
          maxResults \in {0, 1}, tie \in {"up", "down"} :
          /\ lastSearch = NoFound
          /\ ReadReturns
          /\ ObserveSearch(SearchBatchCall(rows, "alpha", m, qs, embs,
                 fails, FALSE,
                 [MaxResults |-> maxResults, FTSWeight |-> 0,
                  VecWeight |-> 0, DecayHalfLife |-> 1,
                  CategoryDecay |-> <<>>, Namespaces |-> {},
                  Subject |-> "", Category |-> "", OnlyActive |-> FALSE,
                  MetadataFilters |-> <<>>], tie))

SpecSearch == Init /\ [][NextSearch]_vars

\* the result lists of the last Search or SearchBatch that returned them
Results == {lastSearch.lists[k] : k \in 1..Len(lastSearch.lists)}

\* C23: Search and each result list of SearchBatch hold at most MaxResults
\* entries (at most 20 when MaxResults is not positive), no fact id twice,
\* and Combined does not increase along the list.
C23_RankedAndCut ==
    lastSearch.op \in {"Search", "SearchBatch"} =>
        \A res \in Results :
            /\ Len(res) <= (IF lastSearch.opts.MaxResults > 0
                            THEN lastSearch.opts.MaxResults ELSE 20)
            /\ \A i, j \in 1..Len(res) : i # j => res[i].id # res[j].id
            /\ \A i \in 1..(Len(res) - 1) : res[i].score >= res[i + 1].score

\* a Search with MaxResults 0 on more than 20 matching facts returned 20
C23_Witness ==
    /\ lastSearch.op = "Search" /\ ~lastSearch.err
    /\ lastSearch.opts.MaxResults = 0
    /\ Cardinality(DOMAIN lastSearch.before) > 20
    /\ Len(lastSearch.lists[1]) = 20

\* a Search cut two matching facts to the one of the higher Combined,
\* which is the one inserted last
C23_WitnessOrder ==
    /\ lastSearch.op = "Search" /\ ~lastSearch.err
    /\ lastSearch.opts.MaxResults = 1
    /\ lastSearch.opts.DecayHalfLife = 0
    /\ Len(lastSearch.fts[1].res) = 2
    /\ lastSearch.before[1].content = "c2"
    /\ lastSearch.before[2].content = "c1"
    /\ Len(lastSearch.lists[1]) = 1
    /\ lastSearch.lists[1][1].id = 2
    /\ lastSearch.lists[1][1].VecScore = 1000

\* the half-life the options give a category: CategoryDecay[category] when
\* the category is a key of the map, else DecayHalfLife
ResolvedHalfLife(opts, category) ==
    IF category \in DOMAIN opts.CategoryDecay
    THEN opts.CategoryDecay[category] ELSE opts.DecayHalfLife

\* C24: in Search the half-life of a result is CategoryDecay[category]
\* when its category is a key of the map, else DecayHalfLife, and Combined
\* is multiplied by the decay factor only when that half-life is positive.
C24_CategoryHalfLife ==
    lastSearch.op = "Search" =>
        \A res \in Results : \A k \in 1..Len(res) :
            LET o == WithDefaults(lastSearch.opts)
            IN  res[k].score =
                    Decay(o.FTSWeight * res[k].FTSScore
                              + o.VecWeight * res[k].VecScore,
                          res[k].createdAt,
                          ResolvedHalfLife(o, res[k].category))

\* the RLock calls of the last Search, SearchBatch or List
RLocks == Cardinality({k \in 1..Len(lastSearch.locks) :
                          lastSearch.locks[k] = "RLock"})

\* C29 as stated: a SearchBatch of a store with an embedder sends the
\* embedder one request, for all the queries, takes the shared lock once
\* and returns one result list per query; on no query it returns nil and
\* sends no request.
C29_OneRequest ==
    lastSearch.op = "SearchBatch" =>
        IF lastSearch.queries = <<>>
        THEN lastSearch.requests = <<>> /\ lastSearch.lists = <<>>
        ELSE /\ lastSearch.embedder # "nil" =>
                  lastSearch.requests = <<lastSearch.queries>>
             /\ ~lastSearch.err =>
                  /\ RLocks = 1
                  /\ Len(lastSearch.lists) = Len(lastSearch.queries)

\* C29, amended: every request SearchBatch sends the embedder is for all
\* the queries, there is one when the embedder answers it and at most
\* embedMaxRetries + 1 when it fails; the shared lock is taken at most
\* once, and once by a call that returns results; these are one list per
\* query, that of the query at the same place; on no query it returns
\* nil, sends no request and takes no lock.
C29_BatchedRequests ==
    lastSearch.op = "SearchBatch" =>
        LET qs == lastSearch.queries
            o == WithDefaults(lastSearch.opts)
        IN  /\ \A k \in 1..Len(lastSearch.requests) :
                  lastSearch.requests[k] = qs
            /\ Len(lastSearch.requests) <= embedMaxRetries + 1
            /\ qs # <<>> /\ lastSearch.embedder # "nil"
                    /\ lastSearch.fails = 0 =>
                  Len(lastSearch.requests) = 1
            /\ RLocks <= 1
            /\ qs = <<>> =>
                  /\ lastSearch.requests = <<>> /\ RLocks = 0
                  /\ lastSearch.lists = <<>> /\ ~lastSearch.err
            /\ qs # <<>> /\ ~lastSearch.err =>
                  /\ RLocks = 1
                  /\ Len(lastSearch.lists) = Len(qs)
                  /\ \A i \in 1..Len(qs) :
                        lastSearch.lists[i] \in
                            {SearchOne(lastSearch.before, lastSearch.s,
                                 qs[i],
                                 IF i <= Len(lastSearch.embs)
                                 THEN lastSearch.embs[i] ELSE <<>>,
                                 o, tie).res : tie \in {"up", "down"}}

\* a SearchBatch of two queries returned two lists that differ, after the
\* embedder failed once
C29_Witness ==
    /\ lastSearch.op = "SearchBatch" /\ ~lastSearch.err
    /\ Len(lastSearch.queries) = 2
    /\ Len(lastSearch.requests) = 2
    /\ Len(lastSearch.lists) = 2
    /\ lastSearch.lists[1] # lastSearch.lists[2]

----------------------------------------------------------------------------
(* The query specification: Search is called with every string of up to    *)
(* MaxQueryLen characters among a letter, a digit, the double quote and    *)
(* white space, on stores of store "alpha" holding c1, c2 or nothing.      *)

MaxQueryLen == 4

MaxQueryFacts == 1

QueryChars == {"w", "1", "\"", " "}

RawQueries == UNION {[1..n -> QueryChars] : n \in 0..MaxQueryLen}

QueryFacts ==
    {[content |-> c, subject |-> "s1", category |-> "note", meta |-> {},
      supBy |-> Nil, emb |-> EmbedOf(c), createdAt |-> Nil] :
        c \in {"c1", "c2"}}

PlainOpts ==
    [MaxResults |-> 0, FTSWeight |-> 0, VecWeight |-> 0,
     DecayHalfLife |-> 0, CategoryDecay |-> <<>>, Namespaces |-> {},
     Subject |-> "", Category |-> "", OnlyActive |-> FALSE,
     MetadataFilters |-> <<>>]

NextQuery ==
    \/ \E f \in QueryFacts :
          /\ nextID <= MaxQueryFacts
          /\ Insert("alpha", f) /\ ObserveSearch(NoFound)
    \/ \E q \in RawQueries, e \in {<<>>, <<1, 0>>} :
          /\ lastSearch = NoFound
          /\ ReadReturns
          /\ ObserveSearch(SearchCall(rows, "alpha", "m1", q, <<e>>, 0,
                                      FALSE, PlainOpts, "up"))

SpecQuery == Init /\ [][NextQuery]_vars

\* C25: the expression given to the lexical MATCH consists only of the
\* whitespace-delimited tokens of the query, each in double quotes with
\* every double quote inside it doubled, so that FTS5 reads it as exactly
\* those tokens as strings; a query without a token runs no lexical query
\* and has an empty lexical result.
C25_QuotedTokens ==
    lastSearch.op = "Search" /\ lastSearch.fts # <<>> =>
        LET q == lastSearch.queries[1]
            f == lastSearch.fts[1]
        IN  IF \A k \in 1..Len(q) : q[k] \in WhiteSpace
            THEN ~f.run /\ f.res = <<>>
            ELSE /\ f.run
                 /\ f.expr[1] = "\"" /\ f.expr[Len(f.expr)] = "\""
                 /\ Fts5Strings(f.expr).ok
                 /\ Fts5Strings(f.expr).strs = Fields(q)
                 /\ \A k \in 1..Len(Fields(q)) :
                       \A c \in 1..Len(Fields(q)[k]) :
                           Fields(q)[k][c] \notin WhiteSpace

\* a query of two tokens, one of them a double quote, was run
C25_Witness ==
    /\ lastSearch.op = "Search" /\ ~lastSearch.err
    /\ lastSearch.queries[1] = <<"\"", " ", "w", "1">>
    /\ lastSearch.fts[1].run
    /\ lastSearch.fts[1].expr =
           <<"\"", "\"", "\"", "\"", " ", "\"", "w", "1", "\"">>

\* a query of white space alone ran no lexical query
C25_WitnessEmpty ==
    /\ lastSearch.op = "Search" /\ ~lastSearch.err
    /\ lastSearch.queries[1] = <<" ", " ">>
    /\ ~lastSearch.fts[1].run
    /\ lastSearch.before # <<>>

----------------------------------------------------------------------------
(* The filter specification: List, Search and SearchBatch are called with  *)
(* lists of metadata filters whose keys and operators are valid or not, on *)
(* facts with and without the metadata key, with queries that have a word  *)
(* or none and any answer of the embedder.                                 *)

MaxFilterFacts == 2

FilterFacts ==
    {[content |-> "c1", subject |-> "s1", category |-> "note",
      meta |-> md, supBy |-> Nil, emb |-> <<1, 0>>, createdAt |-> Nil] :
        md \in {{}, {<<"k1", 1>>}, {<<"k1", 2>>}}}

MetadataFilter(key, op) ==
    [Key |-> key, Op |-> op, Value |-> 1, IncludeNull |-> FALSE]

\* no filter, valid ones, and ones with an empty key, a key with a
\* character that is not allowed, and an operator that is not allowed
FilterLists ==
    {<<>>,
     <<MetadataFilter(<<"k", "1">>, "=")>>,
     <<MetadataFilter(<<"k", "1">>, ">")>>,
     <<MetadataFilter(<<>>, "=")>>,
     <<MetadataFilter(<<"k", "'">>, "=")>>,
     <<MetadataFilter(<<"k", "1">>, "LIKE")>>,
     <<MetadataFilter(<<"k", "1">>, "="), MetadataFilter(<<"k", ".">>, "<")>>}

FilterOpts(filters) == [PlainOpts EXCEPT !.MetadataFilters = filters]

NextFilter ==
    \/ \E f \in FilterFacts :
          /\ nextID <= MaxFilterFacts
          /\ Insert("alpha", f) /\ ObserveSearch(NoFound)
    \/ \E fl \in FilterLists, limit \in {0, 1} :
          /\ lastSearch = NoFound
          /\ ReadReturns
          /\ ObserveSearch(ListCall(rows, "alpha",
                 [Namespaces |-> {}, Subject |-> "", Category |-> "",
                  OnlyActive |-> FALSE, MetadataFilters |-> fl,
                  Limit |-> limit]))
    \/ \E fl \in FilterLists, q \in {<<>>, <<" ">>, <<"w", "1">>},
          embs \in {<<>>, <<<<>>>>, <<<<1, 0>>>>}, fails \in {0, 1} :
          /\ lastSearch = NoFound
          /\ ReadReturns
          /\ ObserveSearch(SearchCall(rows, "alpha", "m1", q, embs, fails,
                                      FALSE, FilterOpts(fl), "up"))
    \/ \E fl \in FilterLists,
          qs \in {<<<<"w", "1">>>>, <<<<"w", "1">>, <<" ">>>>,
                  <<<<" ">>>>},
          embs \in {<<>>, <<<<1, 0>>>>, <<<<1, 0>>, <<1, 0>>>>} :
          /\ lastSearch = NoFound
          /\ ReadReturns
          /\ ObserveSearch(SearchBatchCall(rows, "alpha", "m1", qs, embs, 0,
                                           FALSE, FilterOpts(fl), "up"))

SpecFilter == Init /\ [][NextFilter]_vars

\* the filters of the last call hold one with a key that is empty or has a
\* character outside A-Z, a-z, 0-9 and _, or with an operator outside =,
\* !=, <, <=, >, >=
InvalidFilter ==
    \E k \in 1..Len(lastSearch.opts.MetadataFilters) :
        LET mf == lastSearch.opts.MetadataFilters[k]
        IN  \/ mf.Key = <<>>
            \/ \E c \in 1..Len(mf.Key) :
                  mf.Key[c] \notin Letters \cup Digits \cup {"_"}
            \/ mf.Op \notin {"=", "!=", "<", "<=", ">", ">="}

\* C26: List, Search and SearchBatch return an error and no results
\* whenever a metadata filter has an invalid key or operator, for every
\* query and every answer of the embedder.
C26_InvalidFilterRefused ==
    /\ lastSearch.op \in {"List", "Search", "SearchBatch"}
    /\ InvalidFilter
    => lastSearch.err /\ lastSearch.lists = <<>>

\* What holds: List always refuses an invalid filter, and Search and
\* SearchBatch refuse it when a query has a word or a vector pass runs.
InvalidFilterRefusedInSQL ==
    /\ lastSearch.op \in {"List", "Search", "SearchBatch"}
    /\ InvalidFilter
    /\ \/ lastSearch.op = "List"
       \/ \E i \in 1..Len(lastSearch.queries) :
             \/ Fields(lastSearch.queries[i]) # <<>>
             \/ /\ i <= Len(lastSearch.embs)
                /\ lastSearch.embs[i] # <<>>
    => lastSearch.err /\ lastSearch.lists = <<>>

----------------------------------------------------------------------------
(* The server specification: facts are inserted through the stores of both *)
(* namespaces, some with a blank content, and the memory_supersede and     *)
(* memory_store tools of a server on store "alpha" are called with any     *)
(* ids, contents and outcome of the embedder.                              *)

MaxServerFacts == 2

ServerFacts ==
    {[content |-> c, subject |-> "s1", category |-> "note", meta |-> {},
      supBy |-> Nil, emb |-> <<>>] : c \in {"c1", " "}}

\* ids a tool caller may pass: not positive, issued, and never issued
ServerIds == 0..(MaxServerFacts + 1)

ToolCall(op, s, args, err, embedded) ==
    [op |-> op, s |-> s, args |-> args, err |-> err,
     embedded |-> embedded, before |-> rows]

ObserveTool(t) ==
    /\ tool' = t
    /\ UNCHANGED <<lockVars, chainHist, nsHist, extVars, embVars, openVars,
                   resumeVars, xferVars, callHist, searchHist, codecVars, walkVars, raceVars, migVars>>

NextServer ==
    \/ \E s \in Namespaces, f \in ServerFacts :
          /\ nextID <= MaxServerFacts
          /\ Insert(s, f) /\ ObserveTool(NoTool)
    \/ \E s \in {"alpha"}, o \in ServerIds, n \in ServerIds :
          /\ HandleSupersede(s, o, n)
          /\ ObserveTool(ToolCall("memory_supersede", s,
                 [old |-> o, new |-> n],
                 HandleSupersedeErr(rows, s, o, n), <<>>))
    \/ \E s \in {"alpha"}, c \in {"c1", "c2", " "}, subj \in {"s1", ""},
          o \in {Nil, 1}, ok \in BOOLEAN :
          /\ nextID <= MaxServerFacts
          /\ HandleStore(s, c, subj, o, ok)
          /\ ObserveTool(ToolCall("memory_store", s,
                 [content |-> c, subject |-> subj, supersedes |-> o,
                  embedOk |-> ok],
                 HandleStoreErr(rows, s, c, subj, ok),
                 HandleStoreEmbeds(rows, s, c, subj)))

SpecServer == Init /\ [][NextServer]_vars

\* fact id is a row of namespace s in table db
InNamespace(db, s, id) == id \in DOMAIN db /\ db[id].ns = s

\* C27: memory_supersede returns an error result and changes no fact when
\* old_id or new_id is not positive, the ids are equal, the old fact is not
\* in the namespace or is already superseded, or the new fact is not in
\* the namespace; otherwise it links the old fact to the new one.
C27_SupersedeValidated ==
    tool.op = "memory_supersede" =>
        LET db == tool.before
            o == tool.args.old
            n == tool.args.new
            bad == \/ o <= 0 \/ n <= 0 \/ o = n
                   \/ ~InNamespace(db, tool.s, o)
                   \/ db[o].supBy # Nil
                   \/ ~InNamespace(db, tool.s, n)
        IN  IF bad THEN tool.err /\ rows = db
            ELSE /\ ~tool.err
                 /\ rows = [db EXCEPT ![o].supBy = n, ![o].supAt = Now]

\* memory_supersede refused a new_id that is a fact of the other namespace
\* and an old_id that is already superseded, and linked two facts
C27_Witness ==
    /\ tool.op = "memory_supersede" /\ tool.err
    /\ InNamespace(tool.before, tool.s, tool.args.old)
    /\ tool.before[tool.args.old].supBy = Nil
    /\ tool.args.new \in DOMAIN tool.before
    /\ tool.args.new # tool.args.old
    /\ ~InNamespace(tool.before, tool.s, tool.args.new)

C27_WitnessLinked ==
    /\ tool.op = "memory_supersede" /\ ~tool.err
    /\ rows # tool.before

\* a fact of the namespace with the content and subject given to the tool
Duplicate ==
    \E i \in DOMAIN tool.before :
        /\ tool.before[i].ns = tool.s
        /\ tool.before[i].content = tool.args.content
        /\ tool.before[i].subject = tool.args.subject

\* the ids memory_store added
Stored == DOMAIN rows \ DOMAIN tool.before

\* memory_store stored the fact, with its embedding, after one call of the
\* embedder that succeeded
StoredEmbedded ==
    /\ Stored # {} =>
          /\ tool.args.embedOk
          /\ tool.embedded = <<tool.args.content>>
          /\ \E id \in Stored :
                /\ Stored = {id}
                /\ rows[id].ns = tool.s
                /\ rows[id].content = tool.args.content
                /\ rows[id].subject = tool.args.subject
                /\ rows[id].emb = EmbedOf(tool.args.content)
    /\ Stored = {} => rows = tool.before

\* C28 as stated: memory_store inserts no fact and calls no embedder when
\* a fact of the namespace has the content and subject, superseded or not,
\* and its result is then no error; otherwise it inserts the fact only
\* after its embedding was computed.
C28_DuplicateNotStored ==
    tool.op = "memory_store" =>
        IF Duplicate
        THEN rows = tool.before /\ tool.embedded = <<>> /\ ~tool.err
        ELSE StoredEmbedded

\* C28, amended: the same for a content and a subject that are not blank.
C28_DuplicateNotStoredNonBlank ==
    /\ tool.op = "memory_store"
    /\ ~Blank(tool.args.content) /\ ~Blank(tool.args.subject)
    => IF Duplicate
       THEN rows = tool.before /\ tool.embedded = <<>> /\ ~tool.err
       ELSE StoredEmbedded

\* memory_store was given the content and subject of a superseded fact of
\* the namespace
C28_Witness ==
    /\ tool.op = "memory_store" /\ ~tool.err
    /\ ~Blank(tool.args.content)
    /\ Duplicate
    /\ \A i \in DOMAIN tool.before :
          tool.before[i].content = tool.args.content =>
              tool.before[i].supBy # Nil

\* memory_store stored a fact
C28_WitnessStored ==
    /\ tool.op = "memory_store" /\ ~tool.err
    /\ Stored # {}


----------------------------------------------------------------------------
(* The codec specification: EncodeFloat32s on vectors of up to MaxVecLen   *)
(* values and DecodeFloat32s on up to MaxBlobLen bytes.                    *)

MaxVecLen == 2

MaxBlobLen == 5

\* 0, -0, 1, -2.5, 0.1, the smallest subnormal, MaxFloat32, a NaN and the
\* pattern of all ones
Floats ==
    {Float32(0, 0, 0), Float32(1, 0, 0), Float32(0, 127, 0),
     Float32(1, 128, 2^21), Float32(0, 123, 5033165), Float32(0, 0, 1),
     Float32(0, 254, 2^23 - 1), Float32(0, 255, 2^22),
     Float32(1, 255, 2^23 - 1)}

Bytes == {0, 1, 128, 255}

SeqsUpTo(S, n) == UNION {[1..k -> S] : k \in 0..n}

ObserveCodec ==
    UNCHANGED <<dbVars, lockVars, chainHist, nsHist, extVars, embVars, openVars, resumeVars, xferVars, callHist, searchHist, toolHist, walkVars, raceVars, migVars>>

\* a run of the codec specification is one call
NextCodec ==
    \/ /\ codec = NoCodec
       /\ \E v \in SeqsUpTo(Floats, MaxVecLen) : EncodeCall(v) /\ ObserveCodec
    \/ /\ codec = NoCodec
       /\ \E buf \in SeqsUpTo(Bytes, MaxBlobLen) : DecodeCall(buf) /\ ObserveCodec

SpecCodec == Init /\ [][NextCodec]_vars

\* C31: decoding what EncodeFloat32s returned gives the vector back bit for
\* bit, the encoding being 4 bytes per value, lowest byte first, and
\* nothing else; encoding what DecodeFloat32s returned for a byte sequence
\* whose length is a multiple of 4 gives those bytes back.
C31_RoundTrip ==
    /\ codec.op = "encode" =>
          /\ Len(codec.buf) = 4 * Len(codec.vec)
          /\ DecodeFloat32s(codec.buf) = codec.vec
          /\ \A i \in 1..Len(codec.vec) :
                LET b == Float32bits(codec.vec[i])
                    k == (i - 1) * 4
                IN  /\ codec.buf[k + 1] + codec.buf[k + 2] * 2^8 = b.lo
                    /\ codec.buf[k + 3] + codec.buf[k + 4] * 2^8 = b.hi
    /\ (codec.op = "decode" /\ Len(codec.buf) % 4 = 0) =>
          /\ Len(codec.vec) * 4 = Len(codec.buf)
          /\ EncodeFloat32s(codec.vec) = codec.buf

\* an encoding of 1 and a NaN: 00 00 80 3F, 00 00 C0 7F
C31_Witness ==
    /\ codec.op = "encode"
    /\ codec.vec = <<Float32(0, 127, 0), Float32(0, 255, 2^22)>>
    /\ codec.buf = <<0, 0, 128, 63, 0, 0, 192, 127>>

\* a decoding of the four bytes 01 00 80 FF
C31_WitnessDecode ==
    /\ codec.op = "decode"
    /\ codec.buf = <<1, 0, 128, 255>>
    /\ codec.vec = <<Float32(1, 255, 1)>>

----------------------------------------------------------------------------
(* The history specification: facts are inserted through store object A,   *)
(* Supersede and the memory_supersede tool are called with any pair of     *)
(* ids, and History(id) runs statement by statement under the shared lock, *)
(* which keeps the writers out until it returns.                           *)

MaxHistoryFacts == 2

HistoryIds == 0..(MaxHistoryFacts + 1)

ObserveHistory ==
    UNCHANGED <<chainHist, nsHist, extVars, embVars, openVars, resumeVars, xferVars, callHist, searchHist, toolHist, codecVars, raceVars, migVars>>

\* s.mu.Lock() of a writing method: nobody holds the mutex
WriterEnters == CanLock(mu["A"]) /\ UNCHANGED <<lockVars, walkVars>>

NextHistory ==
    \/ \E f \in PlainFacts :
          /\ nextID <= MaxHistoryFacts /\ WriterEnters
          /\ Insert("alpha", f) /\ ObserveHistory
    \/ \E o \in HistoryIds, n \in HistoryIds :
          WriterEnters /\ Supersede("alpha", o, n) /\ ObserveHistory
    \/ \E o \in HistoryIds, n \in HistoryIds :
          WriterEnters /\ HandleSupersede("alpha", o, n) /\ ObserveHistory
    \/ \E id \in HistoryIds :
          HistoryBegin(id) /\ UNCHANGED dbVars /\ ObserveHistory
    \/ HistoryAnchor /\ UNCHANGED dbVars /\ ObserveHistory
    \/ HistoryBack /\ UNCHANGED dbVars /\ ObserveHistory
    \/ HistoryForward /\ UNCHANGED dbVars /\ ObserveHistory
    \/ HistoryReturn /\ UNCHANGED dbVars /\ ObserveHistory

\* The call in progress is scheduled until it returns.
SpecHistory ==
    Init /\ [][NextHistory]_vars /\ WF_vars(HistoryStep /\ ObserveHistory)

\* C32: every History(id) call returns and releases the shared lock.  A
\* loop of History is at a row only by the row before it, so a loop that
\* appends a row it has appended before repeats from there for ever: the
\* call returns in every run exactly when no loop does so.
C32_HistoryReturns == ~(walk.again /\ "t1" \in mu["A"].r)

\* the same as a property of the scheduled runs
HistoryEventuallyReturns == (walk.pc # "idle") ~> (walk.pc = "idle")

\* a History call that walked back and forward has returned and released
HistoryReturned ==
    /\ walk.pc = "idle" /\ walk.ret = "ok" /\ walk.seen # {}
    /\ mu["A"] = Unlocked

----------------------------------------------------------------------------
(* Links of the chain specification. *)

\* C33: every superseded_by that is not NULL is the id of a row that is in
\* the table and has the namespace of the row holding it.
C33_LinksResolve ==
    \A i \in DOMAIN rows :
        rows[i].supBy # Nil =>
            /\ rows[i].supBy \in DOMAIN rows
            /\ rows[rows[i].supBy].ns = rows[i].ns

----------------------------------------------------------------------------
(* The race specification: every fact comes in through the memory_store    *)
(* tool, called by two clients of a server on store "alpha", or through    *)
(* an Extract call on the same store; the calls run side by side, one      *)
(* store method at a time.                                                 *)

MaxRaceFacts == 2

ObserveRace ==
    UNCHANGED <<lockVars, chainHist, nsHist, extVars, embVars, openVars, resumeVars, xferVars, callHist, searchHist, toolHist, codecVars, walkVars, migVars>>

NextRace ==
    \/ \E c \in Clients, content \in {"c1", "c2", " "} :
          HandleStoreCall(c, content, "s1") /\ ObserveRace
    \/ \E c \in Clients : HandleStoreExists(c, "alpha") /\ ObserveRace
    \/ \E c \in Clients, embedOk \in BOOLEAN :
          HandleStoreEmbed(c, embedOk) /\ ObserveRace
    \/ \E c \in Clients :
          /\ nextID <= MaxRaceFacts
          /\ HandleStoreInsert(c, "alpha") /\ ObserveRace
    \/ \E rs \in ExtractResponses :
          /\ ExtractCall(rs, "", TRUE, TRUE)
          /\ UNCHANGED race
          /\ ObserveExt(FALSE, "alpha", CallHist(rs, TRUE, TRUE))
    \/ /\ ExtractExists("alpha", TRUE)
       /\ UNCHANGED race
       /\ ObserveExt(FALSE, "alpha", StepHist(FALSE))
    \/ \E embedOk \in BOOLEAN :
          /\ nextID <= MaxRaceFacts
          /\ ExtractInsert("alpha", embedOk, TRUE)
          /\ UNCHANGED race
          /\ ObserveExt(FALSE, "alpha", StepHist(~embedOk))
    \/ /\ ExtractSearch("alpha", TRUE)
       /\ UNCHANGED race
       /\ ObserveExt(FALSE, "alpha", StepHist(FALSE))
    \/ /\ ExtractSupersede("alpha")
       /\ UNCHANGED race
       /\ ObserveExt(TRUE, "alpha",
                     StepHist(SupersedeErr(rows, "alpha", ext.best)))

SpecRace == Init /\ [][NextRace]_vars

\* C34: no two facts of one namespace have the same content and subject.
C34_NoDuplicates ==
    \A i \in DOMAIN rows : \A j \in DOMAIN rows :
        (i # j /\ rows[i].ns = rows[j].ns) =>
            ~(rows[i].content = rows[j].content
              /\ rows[i].subject = rows[j].subject)

----------------------------------------------------------------------------
(* The activity specification: the round trip of the transfer              *)
(* specification, with and without SkipDuplicates, of a database that may  *)
(* hold a content and subject twice.                                       *)

MaxActiveFacts == 3

NextActive ==
    \/ \E s \in Namespaces, f \in TransferFacts :
          /\ xd.pc = "build" /\ nextID <= MaxActiveFacts
          /\ Insert(s, f) /\ UNCHANGED xd /\ ObserveTransfer(origin)
    \/ \E o \in 1..MaxActiveFacts, n \in 1..MaxActiveFacts :
          /\ xd.pc = "build"
          /\ Supersede("alpha", o, n) /\ UNCHANGED xd
          /\ ObserveTransfer(origin)
    \/ \E i \in 1..MaxActiveFacts :
          /\ xd.pc = "build" /\ i \in DOMAIN rows
          /\ Delete("alpha", i) /\ UNCHANGED xd /\ ObserveTransfer(origin)
    \/ ExportCall /\ ObserveTransfer([origin EXCEPT !.db = rows])
    \/ OpenDestination /\ ObserveTransfer(origin)
    \/ \E skipDup \in BOOLEAN,
          nsOrder \in {<<"alpha", "beta">>, <<"beta", "alpha">>} :
          /\ xd.pc = "fresh"
          /\ ImportInsertPass(xd.data, nsOrder, skipDup)
          /\ ImportBegun
          /\ ObserveTransfer([origin EXCEPT !.idMap = imp'.idMap])
    \/ /\ xd.pc = "linking"
       /\ ImportLinkPass /\ ImportEnded /\ ObserveTransfer(origin)

SpecActive == Init /\ [][NextActive]_vars

\* the exported facts that Import inserted a copy of
Imported == DOMAIN origin.idMap

CopyOf(f) == rows[origin.idMap[f]]

\* C36: after Export and Import into an empty database, with or without
\* SkipDuplicates, the copy of a fact is superseded exactly when the
\* exported fact was.
C36_ActivePreserved ==
    xd.pc = "done" =>
        \A f \in Imported :
            (CopyOf(f).supBy # Nil) <=> (origin.db[f].supBy # Nil)

\* C36, amended: the copy of a fact is superseded, and by the copy of the
\* fact's successor, exactly when the exported fact was superseded by a
\* fact of which Import inserted a copy too; the copy of any other fact
\* is active.
C36_ActiveWhenSuccessorImported ==
    xd.pc = "done" =>
        \A f \in Imported :
            IF origin.db[f].supBy \in Imported
            THEN CopyOf(f).supBy = origin.idMap[origin.db[f].supBy]
            ELSE CopyOf(f).supBy = Nil

\* C36 witness: with SkipDuplicates, a link was restored under new ids and
\* a fact was skipped as a duplicate
C36_Witness ==
    /\ xd.pc = "done"
    /\ Imported # DOMAIN origin.db
    /\ \E f \in Imported :
          /\ origin.db[f].supBy \in Imported
          /\ CopyOf(f).supBy # origin.db[f].supBy

\* C36 witness: a fact superseded by a skipped duplicate has an active copy
C36_WitnessDropped ==
    /\ xd.pc = "done"
    /\ \E f \in Imported :
          /\ origin.db[f].supBy \in DOMAIN origin.db
          /\ origin.db[f].supBy \notin Imported
          /\ CopyOf(f).supBy = Nil

----------------------------------------------------------------------------
(* The migration specification: a new database file, or one an older       *)
(* release has left, is opened by NewSQLiteStore calls that run side by     *)
(* side, one statement at a time, any of which may fail.                    *)

ObserveMigrate ==
    UNCHANGED <<dbVars, lockVars, chainHist, nsHist, extVars, embVars, openVars, resumeVars, xferVars, callHist, searchHist, toolHist, codecVars, walkVars, raceVars>>

NextMigrate ==
    \/ \E c \in Conns : OpenCall(c) /\ ObserveMigrate
    \/ \E c \in Conns, ok \in BOOLEAN :
          CreateVersionTable(c, ok) /\ ObserveMigrate
    \/ \E c \in Conns, ok \in BOOLEAN : ReadVersion(c, ok) /\ ObserveMigrate
    \/ \E c \in Conns, ok \in BOOLEAN :
          MigrateStatement(c, ok) /\ ObserveMigrate
    \/ \E c \in Conns, ok \in BOOLEAN : WriteVersion(c, ok) /\ ObserveMigrate
    \/ \E v \in 1..(schemaVersion - 1) : OlderRelease(v) /\ ObserveMigrate

SpecMigrate == Init /\ [][NextMigrate]_vars

\* C39: memstore_version never holds more than one row.
C39_OneVersionRow == Len(mdb.version) <= 1

\* C39 witness: of two calls that both read version 0 on a new file, one
\* wrote the row and the other returned the error of a column that exists
C39_Witness ==
    /\ mdb.version = <<schemaVersion>>
    /\ \E c \in Conns, d \in Conns :
          /\ mg[c].pc = "idle" /\ mg[c].ret = "ok" /\ mg[c].version = 0
          /\ mg[d].pc = "idle" /\ mg[d].ret = "dup" /\ mg[d].version = 0

\* C39 witness: after a failed migration the file has no row, and a later
\* call fails on the column the failed one had added
C39_WitnessFailed ==
    /\ mdb.version = <<>> /\ mdb.has # {}
    /\ \E c \in Conns : mg[c].pc = "idle" /\ mg[c].ret = "dup"
    /\ \A c \in Conns : mg[c].pc = "idle"

\* an older release's row is updated in place
C39_WitnessUpdated ==
    /\ mdb.version = <<schemaVersion>>
    /\ \E c \in Conns : mg[c].ret = "ok" /\ mg[c].version \in 1..4

----------------------------------------------------------------------------
(* The liveness specification: goroutine t2 calls the methods of store     *)
(* object A step by step while goroutine t1 calls History on it.  The      *)
(* embedder and the database answer every call, every step that can be    *)
(* taken is taken, and a goroutine waiting for the mutex gets it when it   *)
(* is free again and again (sync.RWMutex holds new readers back once a     *)
(* writer waits).                                                          *)

\* the methods called by t2
LiveMethods ==
    {"Insert", "InsertBatch", "Supersede", "Confirm", "Delete",
     "SetEmbedding", "EmbedFacts", "Get", "List", "Search", "SearchBatch"}

\* the facts t2 inserts: active, or with the caller's SupersededBy set
LiveFacts ==
    [ns : {"alpha"}, content : {"c1"}, subject : {"s1"}, meta : {{}},
     supBy : {Nil, 2}, emb : {<<>>}]

ObserveLive ==
    UNCHANGED <<chainHist, nsHist, extVars, embVars, openVars, resumeVars, xferVars, callHist, searchHist, toolHist, codecVars, raceVars, migVars>>

\* t waits in s.mu.Lock() or s.mu.RLock() and is admitted
LiveAcquire(t) == Acquire(t) /\ UNCHANGED walkVars /\ ObserveLive

\* a step of t's call that waits for nothing
LiveRun(t) ==
    /\ \/ \E ok \in BOOLEAN, cancelled \in BOOLEAN :
             EmbedAttempt(t, ok, cancelled)
       \/ ExecRead(t)
       \/ \E f \in LiveFacts : ExecWrite(t, 1, f)
       \/ FTSPass(t)
       \/ VecPass(t, 2)
       \/ Scan(t, 1)
       \/ Update(t)
    /\ UNCHANGED walkVars /\ ObserveLive

NextLive ==
    \/ \E op \in LiveMethods :
          /\ CallBound(op) /\ Call("t2", op)
          /\ UNCHANGED walkVars /\ ObserveLive
    \/ LiveAcquire("t2")
    \/ \E ok \in BOOLEAN, cancelled \in BOOLEAN :
          /\ EmbedAttempt("t2", ok, cancelled)
          /\ UNCHANGED walkVars /\ ObserveLive
    \/ ExecRead("t2") /\ UNCHANGED walkVars /\ ObserveLive
    \/ \E f \in LiveFacts :
          ExecWrite("t2", 1, f) /\ UNCHANGED walkVars /\ ObserveLive
    \/ FTSPass("t2") /\ UNCHANGED walkVars /\ ObserveLive
    \/ VecPass("t2", 2) /\ UNCHANGED walkVars /\ ObserveLive
    \/ Scan("t2", 1) /\ UNCHANGED walkVars /\ ObserveLive
    \/ Update("t2") /\ UNCHANGED walkVars /\ ObserveLive
    \/ \E id \in 0..MaxLockFacts :
          HistoryBegin(id) /\ UNCHANGED dbVars /\ ObserveLive
    \/ HistoryAnchor /\ UNCHANGED dbVars /\ ObserveLive
    \/ HistoryBack /\ UNCHANGED dbVars /\ ObserveLive
    \/ HistoryForward /\ UNCHANGED dbVars /\ ObserveLive
    \/ HistoryReturn /\ UNCHANGED dbVars /\ ObserveLive

SpecLive ==
    /\ Init /\ [][NextLive]_vars
    /\ WF_vars(HistoryStep /\ ObserveLive)
    /\ WF_vars(LiveRun("t2"))
    /\ SF_vars(LiveAcquire("t2"))

\* C38: every call of a method of the store gets the mutex, completes and
\* releases it.  A History call whose loop has come to a row a second time
\* keeps the shared lock for ever (C32), so a call that waits in s.mu.Lock()
\* behind it never gets the mutex: the claim requires that no call is ever
\* in that position.
C38_CallsAcquire ==
    ~(/\ walk.again /\ "t1" \in mu["A"].r
      /\ \E t \in Threads :
            th[t].pc = "lock" /\ LockKind(th[t].op) = "Lock")

\* the same as a property of the scheduled runs
CallsEventuallyReturn ==
    \A t \in Threads : (th[t].pc # "idle") ~> (th[t].pc = "idle")

\* in the runs in which no History loop repeats, every call returns
CallsReturnUnlessHistoryLoops ==
    [](~walk.again) => CallsEventuallyReturn

\* no goroutine that holds the mutex is at a step that requests it
HolderNeverRequests ==
    \A t \in Threads : Holds(mu["A"], t) => th[t].pc # "lock"

\* a writing call waited for a History call and then got the mutex
WriterAfterHistory ==
    mu["A"].w = "t2" /\ walk.ret = "ok" /\ walk.pc = "idle"

====
